---- MODULE Spec2Model ----
(***************************************************************************)
(* A model of the bitcask engine of smallDB: the segmented append-only     *)
(* log, the in-memory keydir, batch commit with sequence numbers and       *)
(* terminators, online merge with its sibling directory, the advisory      *)
(* directory lock, and recovery at open.                                   *)
(*                                                                         *)
(* A segment is a sequence of entries; every entry carries the byte        *)
(* offset at which it really starts and its encoded length, so a record    *)
(* position (file_id, ofs, size) resolves by offset exactly as a           *)
(* positional read does.                                                   *)
(***************************************************************************)
EXTENDS Integers, Sequences, FiniteSets, TLC

\* ------------------------------------------------------------------ bounds
Keys == {"a", "b"}
Values == {1, 2}
Writers == {"w1", "w2"}
data_file_size == 24
MaxAppends == 2
MaxFileId == 2
MaxCloses == 1
MaxConcAppends == 2
MaxBatchAppends == 4
MaxBatchFileId == 4
MaxSnapKeys == 3
MaxFaultSeq == 2
MaxMergedAppends == 3
MaxMergedFileId == 3
MaxRotateFileId == 3
MaxRecommitAppends == 5
ByteVals == {1, 2}
IoOptions == {<<"BTree", "StandardFIO">>, <<"BTree", "MemoryMapped">>,
              <<"SkipList", "MemoryMapped">>, <<"BPTree", "MemoryMapped">>}
BatchNums == {1, 10000}
MergeRatios == {0, 50}
TornLens == {1, 4}

\* ------------------------------------------------------- program constants
INITIAL_FILE_ID == 1
NON_TRANSACTION_SEQUENCE == 0
RECORD_TYPE_LEN == 1
CRC_LEN == 4
TXN_FIN_KEY == "txn-fin"
max_batch_num == 10000
data_file_merge_ratio == 0

NoPos == [file_id |-> 0, ofs |-> 0, size |-> 0]
NoRec == [type |-> "None", key |-> "", val |-> 0, seq |-> 0, ofs |-> 0, size |-> 0]

Max(a, b) == IF a > b THEN a ELSE b

\* ------------------------------------------------------------ record codec
\* Byte length of a user key, of the terminator key, and of a value (a value
\* v of the model is a byte string of v bytes).
KeyLen(k) == IF k = TXN_FIN_KEY THEN 7 ELSE IF k = "" THEN 0 ELSE 1
ValLen(v) == v

\* prost length_delimiter_len
length_delimiter_len(n) == IF n < 128 THEN 1 ELSE IF n < 16384 THEN 2 ELSE 3

\* encode_log_record_key: varint(sequence_number) ++ key
EncodedKeyLen(k, seq) == length_delimiter_len(seq) + KeyLen(k)

\* LogRecord::get_encoded_record_length for a stored key of klen bytes
get_encoded_record_length(klen, vlen) ==
    RECORD_TYPE_LEN + length_delimiter_len(klen) + length_delimiter_len(vlen)
        + klen + vlen + CRC_LEN

RecordSize(k, v, seq) == get_encoded_record_length(EncodedKeyLen(k, seq), ValLen(v))

\* The encoded record, as the entry that lands in a segment at offset ofs.
Encode(type, k, v, seq, ofs) ==
    [type |-> type, key |-> k, val |-> v, seq |-> seq, ofs |-> ofs,
     size |-> RecordSize(k, v, seq)]

\* ---------------------------------------------------------------- segments
\* Byte length of a segment.
FileLen(f) == IF Len(f) = 0 THEN 0 ELSE f[Len(f)].ofs + f[Len(f)].size

\* FileIO::write in append mode: the bytes land at the end of the file.
FileAppend(f, type, k, v, seq) == Append(f, Encode(type, k, v, seq, FileLen(f)))

\* DataFile::read_log_record.  A read at or past the end of the data sees a
\* zeroed header (key_size = value_size = 0) and reports end of file; so does
\* a torn record of which only the type byte was written, when nothing
\* follows it.  Any other torn record, and any offset that is not the start
\* of a record, fails the CRC comparison.
read_log_record(f, ofs) ==
    LET S == {i \in 1..Len(f) : f[i].ofs = ofs} IN
    IF S = {}
    THEN IF ofs >= FileLen(f)
         THEN [res |-> "ReadDataFileEOF", rec |-> NoRec]
         ELSE [res |-> "InvalidLogRecordCRC", rec |-> NoRec]
    ELSE LET i == CHOOSE j \in S : TRUE IN
         IF f[i].type = "Torn"
         THEN IF f[i].size = 1 /\ i = Len(f)
              THEN [res |-> "ReadDataFileEOF", rec |-> NoRec]
              ELSE [res |-> "InvalidLogRecordCRC", rec |-> NoRec]
         ELSE [res |-> "ok", rec |-> f[i]]

\* ------------------------------------------------------------------- index
EmptyIndex == [k \in Keys |-> NoPos]

\* Indexer::get: the position of the key, NoPos for None.
index_get(index, k) == IF k \in DOMAIN index THEN index[k] ELSE NoPos

\* The keys a caller may pass: the keys of the model and the empty key.
AllKeys == Keys \cup {""}

\* A test that takes no key for empty.
key_is_empty_never(k) == FALSE

\* key.is_empty(), the first test of put, get and delete and of the batch's
\* put and delete.
key_is_empty(k) == k = ""

\* A replay that skips tombstones.
update_index_no_tombstone(ix, key, type, pos) ==
    IF type = "Normal"
    THEN [index |-> [ix.index EXCEPT ![key] = pos],
          reclaim |-> ix.reclaim + ix.index[key].size]
    ELSE ix

\* Engine::update_index: returns the index and reclaim_size after the record
\* of the given type at position pos is applied.
update_index(ix, key, type, pos) ==
    IF type = "Normal"
    THEN [index |-> [ix.index EXCEPT ![key] = pos],
          reclaim |-> ix.reclaim + ix.index[key].size]
    ELSE IF type = "Deleted"
    THEN [index |-> [ix.index EXCEPT ![key] = NoPos],
          reclaim |-> ix.reclaim + pos.size + ix.index[key].size]
    ELSE ix

\* ------------------------------------------------------------------- state
VARIABLES
    files,      \* engine directory: file id -> segment (sequence of entries)
    hint,       \* engine directory: hint-index file [exists, recs]
    fin,        \* engine directory: merge-finished file [exists, fid]
    seqNoFile,  \* engine directory: records of the seq-no file (values)
    mdir,       \* the sibling merge directory [exists, files, hint, fin]
    lockHolders,\* instances holding the flock of the engine directory
    eng,        \* memory of the engine instance
    th,         \* writer threads: position in put/delete/commit, batch handle
    mg,         \* the thread running merge() and its sub-engine
    expect,     \* history: last acknowledged write per key
    hist        \* history: outcome of the last open, merge snapshot, crash

vars == <<files, hint, fin, seqNoFile, mdir, lockHolders, eng, th, mg, expect, hist>>
disk == <<files, hint, fin, seqNoFile, mdir>>

NoFile == [exists |-> FALSE, recs |-> <<>>]
NoFin == [exists |-> FALSE, fid |-> 0]
NoDir == [exists |-> FALSE, files |-> <<>>, hint |-> NoFile, fin |-> NoFin]

\* The elements of a finite set of numbers from the largest to the smallest.
SortedSeq_desc(S) ==
    CHOOSE q \in [1..Cardinality(S) -> S] :
        \A i, j \in 1..Cardinality(S) : i < j => q[i] > q[j]

\* Sorted sequence of the elements of a finite set of numbers (file_ids.sort()).
RECURSIVE SortedSeq(_)
SortedSeq(S) ==
    IF S = {} THEN <<>>
    ELSE LET m == CHOOSE x \in S : \A y \in S : x <= y
         IN <<m>> \o SortedSeq(S \ {m})

\* ---------------------------------------------------------------- recovery
\* A check that takes every merge directory for a finished one.
merge_finished_always(md) == TRUE

\* load_merge_files: what the engine directory and the merge directory hold
\* after it ran.  err is the error it returns ("" for Ok).
merge_finished(md) == md.fin.exists

load_merge_files(fs, hn, fn, md) ==
    IF ~md.exists
    THEN [files |-> fs, hint |-> hn, fin |-> fn, mdir |-> md, err |-> ""]
    ELSE IF ~merge_finished(md)
    THEN [files |-> fs, hint |-> hn, fin |-> fn, mdir |-> NoDir, err |-> ""]
    ELSE IF md.fin.fid = 0
    THEN \* merge-finished exists but holds no record: read_log_record(0)?
         [files |-> fs, hint |-> hn, fin |-> fn, mdir |-> md,
          err |-> "ReadDataFileEOF"]
    ELSE LET non_merge_fid == md.fin.fid
             kept == {i \in DOMAIN fs : i >= non_merge_fid}
             moved == {i \in DOMAIN md.files : Len(md.files[i]) > 0}
         IN [files |-> [i \in kept \cup moved |->
                           IF i \in moved THEN md.files[i] ELSE fs[i]],
             hint |-> IF md.hint.exists THEN md.hint ELSE hn,
             fin |-> md.fin,
             mdir |-> NoDir,
             err |-> ""]

\* State of the startup scan: the index and reclaim_size built so far, the
\* buffered transactional records per sequence number, the largest sequence
\* number seen, the offset reached in the current file and the error.
ScanInit(ix) ==
    [index |-> ix, reclaim |-> 0, txn |-> <<>>, maxseq |-> NON_TRANSACTION_SEQUENCE,
     ofs |-> 0, err |-> ""]

\* Apply the buffered records of one transaction, in read order.
RECURSIVE ApplyTxn(_, _, _)
ApplyTxn(st, recs, i) ==
    IF i > Len(recs) THEN st
    ELSE LET u == update_index(st, recs[i].key, recs[i].type, recs[i].pos)
         IN ApplyTxn([st EXCEPT !.index = u.index, !.reclaim = u.reclaim], recs, i + 1)

\* A scan that applies a transactional record as soon as it is read.
ScanRecord_eager(st, e, pos) ==
    LET u == update_index(st, e.key, e.type, pos)
    IN [st EXCEPT !.index = u.index, !.reclaim = u.reclaim,
                  !.maxseq = Max(st.maxseq, e.seq)]

\* One iteration of the loop over the records of a file, db.rs 423-460.
ScanRecord(st, e, pos) ==
    LET st1 ==
          IF e.seq = NON_TRANSACTION_SEQUENCE
          THEN LET u == update_index(st, e.key, e.type, pos)
               IN [st EXCEPT !.index = u.index, !.reclaim = u.reclaim]
          ELSE IF e.type = "TxnFinished"
          THEN IF e.seq \notin DOMAIN st.txn
               THEN [st EXCEPT !.err = "panic"]   \* get(&seq).unwrap() on None
               ELSE LET a == ApplyTxn(st, st.txn[e.seq], 1)
                    IN [a EXCEPT !.txn = [s \in DOMAIN st.txn \ {e.seq} |-> st.txn[s]]]
          ELSE LET item == [key |-> e.key, type |-> e.type, pos |-> pos]
               IN [st EXCEPT !.txn =
                     IF e.seq \in DOMAIN st.txn
                     THEN [st.txn EXCEPT ![e.seq] = Append(@, item)]
                     ELSE st.txn @@ (e.seq :> <<item>>)]
    IN [st1 EXCEPT !.maxseq = Max(st.maxseq, e.seq)]

\* The loop over one file, from offset ofs to the end-of-file sentinel.
RECURSIVE ScanFile(_, _, _, _)
ScanFile(f, fid, ofs, st) ==
    LET r == read_log_record(f, ofs) IN
    IF r.res = "ReadDataFileEOF" THEN [st EXCEPT !.ofs = ofs]
    ELSE IF r.res # "ok" THEN [st EXCEPT !.err = r.res]
    ELSE LET pos == [file_id |-> fid, ofs |-> ofs, size |-> r.rec.size]
             st1 == ScanRecord(st, r.rec, pos)
         IN IF st1.err # "" THEN st1
            ELSE ScanFile(f, fid, ofs + r.rec.size, st1)

\* The loop over file_ids; files below non_merge_fid are skipped when the
\* merge-finished file exists.  wofs is the write offset handed to the active
\* file: set only when the last file is scanned.
RECURSIVE ScanFiles(_, _, _, _, _)
ScanFiles(fs, file_ids, i, fn, st) ==
    IF i > Len(file_ids) \/ st.err # "" THEN st
    ELSE IF fn.exists /\ file_ids[i] < fn.fid
    THEN ScanFiles(fs, file_ids, i + 1, fn, st)
    ELSE LET s1 == ScanFile(fs[file_ids[i]], file_ids[i], 0, st)
             s2 == IF i = Len(file_ids) /\ s1.err = ""
                   THEN [s1 EXCEPT !.wofs = s1.ofs] ELSE s1
         IN ScanFiles(fs, file_ids, i + 1, fn, s2)

\* load_index_from_hint_file: every hint record is put into the index.
RECURSIVE LoadHint(_, _, _)
LoadHint(recs, i, ix) ==
    IF i > Len(recs) THEN ix
    ELSE LoadHint(recs, i + 1, [ix EXCEPT ![recs[i].key] = recs[i].pos])

\* A start that does not read the hint file.
load_index_from_hint_file_none(hn) == EmptyIndex

load_index_from_hint_file(hn) ==
    IF ~hn.exists THEN EmptyIndex ELSE LoadHint(hn.recs, 1, EmptyIndex)

\* load_index_from_data_files over the directory as load_data_files found it.
load_index_from_data_files(fs, file_ids, fn, ix) ==
    LET st0 == ScanInit(ix) @@ [wofs |-> 0] IN
    IF Len(file_ids) = 0 THEN st0
    ELSE IF fn.exists /\ fn.fid = 0
    THEN [st0 EXCEPT !.err = "ReadDataFileEOF"]
    ELSE ScanFiles(fs, file_ids, 1, fn, st0)

\* ------------------------------------------------------------------ engine
\* An RwLock of the engine: the thread that holds it for writing ("" for
\* none) and the threads that hold it for reading.  The actions that run a
\* critical section in one step leave the locks as they find them, free.
Unlocked == [w |-> "", r |-> {}]

Down ==
    [state |-> "down", active |-> 0, wofs |-> 0, old |-> {}, index |-> EmptyIndex,
     seq |-> 0, reclaim |-> 0, clock |-> "", ratio |-> data_file_merge_ratio,
     index_type |-> "BTree", startup_io_type |-> "StandardFIO", mmapped |-> {},
     sync_writes |-> FALSE, bytes_per_sync |-> 0, bytes_write |-> 0, unsynced |-> 0,
     last_sync |-> "none", active_file_lock |-> Unlocked, old_files_lock |-> Unlocked]

\* An open that takes the largest sequence number seen for the next one.
restore_sequence_number_stale(maxseq) == IF maxseq > 0 THEN maxseq ELSE 1

\* Engine::open: sequence_number starts at 1 and is set to the largest
\* sequence number of the scan plus one when the scan saw one.
restore_sequence_number(maxseq) == IF maxseq > 0 THEN maxseq + 1 ELSE 1

\* Engine::open after the directory lock is taken: load_merge_files,
\* load_data_files, the choice of the active file, the hint file and the scan.
\* Returns the directory as open leaves it, the error ("" for Ok) and the
\* memory of the new engine.
OpenEngine(fs, hn, fn, md) ==
    LET lm == load_merge_files(fs, hn, fn, md)
        ids == SortedSeq(DOMAIN lm.files)
        fs1 == IF Len(ids) = 0 THEN (INITIAL_FILE_ID :> <<>>) ELSE lm.files
        active == IF Len(ids) = 0 THEN INITIAL_FILE_ID ELSE ids[Len(ids)]
        sc == load_index_from_data_files(fs1, ids, lm.fin,
                                         load_index_from_hint_file(lm.hint))
        err == IF lm.err # "" THEN lm.err ELSE sc.err
    IN [files |-> IF lm.err # "" THEN fs ELSE fs1,
        hint |-> lm.hint, fin |-> lm.fin, mdir |-> lm.mdir, err |-> err,
        eng |-> IF err # "" THEN Down
                ELSE [state |-> "open", active |-> active, wofs |-> sc.wofs,
                      old |-> DOMAIN fs1 \ {active}, index |-> sc.index,
                      seq |-> restore_sequence_number(sc.maxseq),
                      reclaim |-> sc.reclaim, clock |-> "",
                      ratio |-> data_file_merge_ratio,
                      index_type |-> "BTree", startup_io_type |-> "StandardFIO",
                      mmapped |-> {},
                      sync_writes |-> FALSE, bytes_per_sync |-> 0, bytes_write |-> 0,
                      unsynced |-> 0, last_sync |-> "none",
                      active_file_lock |-> Unlocked, old_files_lock |-> Unlocked]]

\* load_data_files: the ids of the data files opened with a memory-mapped IO
\* manager, those found in the directory when startup_io_type is MemoryMapped.
\* (The first file of an empty directory is created with the standard one.)
load_data_files_io(ids, io) == IF io = "MemoryMapped" THEN ids ELSE {}

\* Engine::reset_io_type: every file gets a standard IO manager.
reset_io_type(e) == [e EXCEPT !.mmapped = {}]

\* The IO manager of the active file can write and sync: MMapIO::write and
\* MMapIO::sync are unimplemented!().
can_write(e) == e.active \notin e.mmapped

\* A lock that is granted whoever holds it.
try_lock_exclusive_blind(holders, me) == TRUE

\* fs2 try_lock_exclusive on the flock file: fails when any other open file
\* description holds the lock.
try_lock_exclusive(holders, me) == holders \ {me} = {}

\* Engine::get_value_by_position and Engine::get, over a directory and an
\* engine memory: the value, or the error returned.
Value(v) == [res |-> "ok", val |-> v]
Failure(e) == [res |-> e, val |-> 0]

get_value_by_position(fs, e, pos) ==
    IF pos.file_id # e.active /\ pos.file_id \notin e.old THEN Failure("DataFileNotFound")
    ELSE LET r == read_log_record(fs[pos.file_id], pos.ofs) IN
         IF r.res # "ok" THEN Failure(r.res)
         ELSE IF r.rec.type = "Deleted" THEN Failure("KeyNotFound")
         ELSE Value(r.rec.val)

GetIn(fs, e, k) ==
    IF key_is_empty(k) THEN Failure("KeyIsEmpty")
    ELSE IF index_get(e.index, k) = NoPos THEN Failure("KeyNotFound")
    ELSE get_value_by_position(fs, e, index_get(e.index, k))

Get(k) == GetIn(files, eng, k)
MappingIn(fs, e) == [k \in Keys |-> GetIn(fs, e, k)]
Mapping == MappingIn(files, eng)

\* Indexer::list_keys
list_keys(e) == {k \in Keys : e.index[k] # NoPos}

\* A test that closes the active file only once it is past the threshold.
MustRotate_late(wofs, size) == wofs > data_file_size

\* Whether append_log_record closes the active file before writing.
MustRotate(wofs, size) == wofs + size > data_file_size

\* Engine::append_log_record on the files fs of a directory and the active
\* file a = [active, wofs, old] of the engine owning it.
append_log_record(fs, a, type, k, v, seq) ==
    LET size == RecordSize(k, v, seq)
        rot == MustRotate(a.wofs, size)
        active1 == IF rot THEN a.active + 1 ELSE a.active
        fs1 == IF rot /\ active1 \notin DOMAIN fs THEN fs @@ (active1 :> <<>>) ELSE fs
        write_ofs == IF rot THEN 0 ELSE a.wofs
    IN [files |-> [fs1 EXCEPT ![active1] = FileAppend(@, type, k, v, seq)],
        active |-> active1,
        wofs |-> write_ofs + size,
        old |-> IF rot THEN a.old \cup {a.active} ELSE a.old,
        pos |-> [file_id |-> active1, ofs |-> write_ofs, size |-> size]]

\* Number of entries in the segments of a directory.
RECURSIVE Entries(_)
Entries(fs) ==
    IF DOMAIN fs = {} THEN 0
    ELSE LET i == CHOOSE j \in DOMAIN fs : TRUE
         IN Len(fs[i]) + Entries([j \in DOMAIN fs \ {i} |-> fs[j]])

EngAppend(type, k, v, seq) == append_log_record(files, eng, type, k, v, seq)

\* ---------------------------------------------------------- index iterator
\* Keys of the index as byte strings, for the order of the iterator.
IterKeys == {<<b>> : b \in ByteVals} \cup {<<b, c>> : b, c \in ByteVals}
IterPrefixes == {<<>>} \cup IterKeys

\* Ord for Vec<u8>: -1, 0 or 1 for Less, Equal, Greater, byte by byte, a
\* proper prefix being Less.
RECURSIVE LexCmp(_, _, _)
LexCmp(a, b, i) ==
    IF i > Len(a) THEN (IF i > Len(b) THEN 0 ELSE -1)
    ELSE IF i > Len(b) THEN 1
    ELSE IF a[i] < b[i] THEN -1
    ELSE IF a[i] > b[i] THEN 1
    ELSE LexCmp(a, b, i + 1)
cmp(a, b) == LexCmp(a, b, 1)

\* The keys of a BTreeMap in the order its iter() yields them.
RECURSIVE btree_iter(_)
btree_iter(S) ==
    IF S = {} THEN <<>>
    ELSE LET m == CHOOSE x \in S : \A y \in S : cmp(x, y) <= 0
         IN <<m>> \o btree_iter(S \ {m})

\* Vec::reverse
RECURSIVE reverse(_)
reverse(q) == IF q = <<>> THEN <<>> ELSE Append(reverse(Tail(q)), Head(q))

\* A prefix test that lets every key through.
starts_with_any(key, prefix) == TRUE

\* slice::starts_with
starts_with(key, prefix) ==
    Len(prefix) <= Len(key) /\ \A i \in 1..Len(prefix) : key[i] = prefix[i]

NoIterKey == [some |-> FALSE, key |-> <<>>]
SomeIterKey(k) == [some |-> TRUE, key |-> k]

\* BTree::iterator over the keys S with the options (prefix, rev).  The
\* fields snap, seeked, start, out and last are history: the snapshot, the
\* key of the last seek, the cursor that seek, rewind or the creation left,
\* the keys next() returned since then and the result of the last next().
iterator(S, prefix, rev) ==
    [items |-> IF rev THEN reverse(btree_iter(S)) ELSE btree_iter(S),
     curr_index |-> 0, prefix |-> prefix, reverse |-> rev,
     snap |-> S, seeked |-> NoIterKey, start |-> 0, out |-> <<>>, last |-> "new"]
NoIter == iterator({}, <<>>, FALSE)

\* BTreeIterator::next from cursor i: the cursor it leaves and what it returns.
RECURSIVE next(_, _)
next(it, i) ==
    IF i >= Len(it.items) THEN [curr_index |-> i, ret |-> NoIterKey]
    ELSE IF it.prefix = <<>> \/ starts_with(it.items[i + 1], it.prefix)
    THEN [curr_index |-> i + 1, ret |-> SomeIterKey(it.items[i + 1])]
    ELSE next(it, i + 1)

\* slice::binary_search_by with the comparator of seek, on items[left+1..right]:
\* the index (from 0) of the equal item, or of the insertion point.
RECURSIVE binary_search_by(_, _, _, _)
binary_search_by(it, key, left, right) ==
    IF left >= right THEN left
    ELSE LET mid == left + (right - left) \div 2
             c == IF it.reverse THEN 0 - cmp(it.items[mid + 1], key)
                  ELSE cmp(it.items[mid + 1], key)
         IN IF c = 0 THEN mid
            ELSE IF c < 0 THEN binary_search_by(it, key, mid + 1, right)
            ELSE binary_search_by(it, key, left, mid)

\* A seek that leaves the cursor at the start.
seek_start(it, key) == 0

\* BTreeIterator::seek
seek(it, key) == binary_search_by(it, key, 0, Len(it.items))

\* ----------------------------------------------------------------- threads
NoPend == [type |-> "None", val |-> 0]
NoBatch == [k \in Keys |-> NoPend]
NoSnap == [k \in Keys |-> Failure("KeyNotFound")]
Idle ==
    [pc |-> "idle", key |-> "", val |-> 0, pos |-> NoPos, pending |-> NoBatch,
     seq |-> 0, todo |-> {}, poss |-> [k \in Keys |-> NoPos], res |-> "",
     it |-> NoIter, max_batch_num |-> max_batch_num]
MergeIdle ==
    [pc |-> "idle", cands |-> <<>>, ci |-> 0, ofs |-> 0, mactive |-> 0, mwofs |-> 0,
     res |-> ""]

\* A return that empties the batch handle.
Returned_clear(w) == [Idle EXCEPT !.max_batch_num = w.max_batch_num]

\* A thread back from its call with Ok: only its batch handle is kept.
Returned(w) == [Idle EXCEPT !.pending = w.pending, !.max_batch_num = w.max_batch_num]

\* Thread t is back from a call that wrote nothing, with the result e (an
\* error, or "" for Ok): nothing else changed.
ReturnErr(t, e) ==
    /\ th' = [th EXCEPT ![t].res = e]
    /\ UNCHANGED <<disk, lockHolders, eng, mg, expect, hist>>

NoHist ==
    [openRes |-> "", otherRes |-> "", merge |-> "none", crash |-> "none",
     recov |-> "none", snap |-> NoSnap, batch |-> NoBatch]

Init ==
    /\ files = <<>>
    /\ hint = NoFile
    /\ fin = NoFin
    /\ seqNoFile = <<>>
    /\ mdir = NoDir
    /\ lockHolders = {}
    /\ eng = Down
    /\ th = [t \in Writers |-> Idle]
    /\ mg = MergeIdle
    /\ expect = [k \in Keys |-> Failure("absent")]
    /\ hist = NoHist

Quiet == (\A t \in Writers : th[t].pc = "idle") /\ mg.pc = "idle"
Running == eng.state = "open"

\* History: a write was acknowledged, so the mapping is no longer the one a
\* merge or a crashed commit started from.
Wrote(h) ==
    [h EXCEPT !.merge = "none", !.recov = "none", !.snap = NoSnap, !.batch = NoBatch]

\* History: the mapping as the caller has been told it is.
Told(m) == [k \in Keys |-> IF m[k].res = "KeyNotFound" THEN Failure("absent") ELSE m[k]]

\* ------------------------------------------------------- open, close, drop
\* Engine::open of the modelled instance while the lock is held elsewhere.
OpenInUse ==
    /\ eng.state = "down"
    /\ ~try_lock_exclusive(lockHolders, "eng")
    /\ hist' = [hist EXCEPT !.openRes = "DatabaseInUse"]
    /\ UNCHANGED <<disk, lockHolders, eng, th, mg, expect>>

\* An open that resets the IO managers for no index type.
resets_io_type_never(ix, io) == FALSE

\* Engine::load_sequence_number: the record at offset 0 of the seq-no file is
\* read and the file is removed; (false, 0) when there is no such file.
load_sequence_number(sf) ==
    [exists |-> sf # <<>>,
     sequence_number |-> IF sf = <<>> THEN 0 ELSE Head(sf),
     seqNoFile |-> <<>>]

\* Engine::open calls reset_io_type only in the branch of the B+-tree index,
\* when startup_io_type is MemoryMapped.
resets_io_type(ix, io) == ix = "BPTree" /\ io = "MemoryMapped"

\* Engine::open of the modelled instance with Options::data_file_merge_ratio
\* set to r percent, index_type ix, startup_io_type io, sync_writes sw and
\* bytes_per_sync bps.  In the branch of
\* the B+-tree index open holds the write guard of active_file when it calls
\* reset_io_type, which locks active_file for writing again: the second
\* lock of the same thread blocks for ever or panics, open does not return
\* (alive: the process hangs and keeps the directory lock).  The B+-tree
\* index with standard IO is outside the model.
OpenOptions(r, ix, io, sw, bps) ==
    /\ eng.state = "down"
    /\ try_lock_exclusive(lockHolders, "eng")
    /\ ix = "BPTree" => io = "MemoryMapped"
    /\ \E o \in {OpenEngine(files, hint, fin, mdir)},
          alive \in (IF resets_io_type(ix, io) THEN BOOLEAN ELSE {TRUE}) :
       /\ files' = o.files
       /\ hint' = o.hint
       /\ fin' = o.fin
       /\ mdir' = o.mdir
       /\ eng' = IF o.err # "" THEN o.eng
                 ELSE IF resets_io_type(ix, io)
                 THEN [Down EXCEPT !.state = IF alive THEN "stuck" ELSE "down"]
                 ELSE [o.eng EXCEPT !.ratio = r, !.index_type = ix, !.startup_io_type = io,
                                    !.sync_writes = sw, !.bytes_per_sync = bps,
                                    !.mmapped = load_data_files_io(
                                        DOMAIN load_merge_files(files, hint, fin, mdir).files,
                                        io)]
       /\ lockHolders' = IF o.err = "" /\ alive THEN lockHolders \cup {"eng"} ELSE lockHolders
       /\ hist' = IF o.err # "" THEN [hist EXCEPT !.openRes = o.err]
                  ELSE IF resets_io_type(ix, io)
                  THEN [hist EXCEPT !.openRes = IF alive THEN "deadlock" ELSE "panic"]
                  ELSE [hist EXCEPT !.openRes = "ok",
                                    !.recov = hist.crash,
                                    !.crash = "none",
                                    !.merge = IF @ = "done" THEN "reopened" ELSE @]
       /\ expect' = IF o.err = "" /\ hist.crash # "none"
                    THEN Told(MappingIn(o.files, o.eng)) ELSE expect
       /\ seqNoFile' = IF o.err = "" /\ ix = "BPTree"
                       THEN load_sequence_number(seqNoFile).seqNoFile ELSE seqNoFile
    /\ UNCHANGED <<th, mg>>

\* Engine::open with the default sync options: sync_writes false and
\* bytes_per_sync 0.  Under these no append syncs automatically and nothing
\* reads bytes_write, so the actions of the engine leave the counter alone;
\* the appends of an engine opened with other sync options keep it.
OpenOpts(r, ix, io) == OpenOptions(r, ix, io, FALSE, 0)

\* Engine::open with the default index and IO types.
OpenWith(r) == OpenOpts(r, "BTree", "StandardFIO")

\* Engine::open of the modelled instance.
Open == OpenWith(data_file_merge_ratio)

\* Engine::close: the seq-no record, the sync of the active file, the unlock.
close_effect(sf, holders, e) ==
    [seqNoFile |-> Append(sf, e.seq), lockHolders |-> holders \ {"eng"}]

Close ==
    /\ Running /\ Quiet
    /\ can_write(eng)
    /\ LET c == close_effect(seqNoFile, lockHolders, eng) IN
       /\ seqNoFile' = c.seqNoFile
       /\ lockHolders' = c.lockHolders
    /\ eng' = [eng EXCEPT !.state = "closed"]
    /\ UNCHANGED <<files, hint, fin, mdir, th, mg, expect, hist>>

\* Drop for Engine: close once more, then the instance is gone, and with it
\* the batch handles that borrow it.
Drop ==
    /\ eng.state \in {"open", "closed"} /\ Quiet
    /\ can_write(eng)
    /\ LET c == close_effect(seqNoFile, lockHolders, eng) IN
       /\ seqNoFile' = c.seqNoFile
       /\ lockHolders' = c.lockHolders
    /\ eng' = Down
    /\ th' = [t \in Writers |-> Idle]
    /\ mg' = MergeIdle
    /\ UNCHANGED <<files, hint, fin, mdir, expect, hist>>

\* C23: every close leaves exactly one record in the sequence-number file,
\* and the record read at offset 0 holds the sequence number the engine had
\* at that close.
C23_SeqNoFileOneRecord ==
    [][(seqNoFile' # seqNoFile /\ seqNoFile' # <<>>) =>
          /\ Len(seqNoFile') = 1
          /\ load_sequence_number(seqNoFile').sequence_number = eng.seq]_vars

\* The terminator of the batch with sequence number seq is in a data file.
HasTerminator(fs, seq) ==
    \E i \in DOMAIN fs : \E j \in 1..Len(fs[i]) :
        fs[i][j].type = "TxnFinished" /\ fs[i][j].seq = seq

\* The index entry of k resolves, as get_value_by_position resolves it, to a
\* complete Normal record of k of the recorded size that is committed.
PosResolves(fs, e, k) ==
    LET pos == index_get(e.index, k) IN
    /\ pos.file_id = e.active \/ pos.file_id \in e.old
    /\ pos.file_id \in DOMAIN fs
    /\ LET r == read_log_record(fs[pos.file_id], pos.ofs) IN
       /\ r.res = "ok"
       /\ r.rec.type = "Normal"
       /\ r.rec.key = k
       /\ r.rec.size = pos.size
       /\ r.rec.seq = NON_TRANSACTION_SEQUENCE \/ HasTerminator(fs, r.rec.seq)

\* C24: in a running engine every index entry resolves to a segment that is
\* the active file or a closed file, and the record at its offset is a
\* complete Normal record of that key and size; never a tombstone, a
\* terminator or a record of a batch without terminator.
C24_IndexResolves ==
    Running => \A k \in Keys : index_get(eng.index, k) # NoPos => PosResolves(files, eng, k)

\* A step in which append_log_record of the running engine wrote a record.
AppendStep == Running /\ eng'.state = "open" /\ Entries(files') = Entries(files) + 1

\* The position append_log_record returned in this step is p, wherever the
\* caller keeps it (put and delete: pos; commit: the position of the key).
ReturnedPos(p) ==
    \A t \in Writers :
        /\ (th'[t].pc # th[t].pc /\ th'[t].pc \in {"put_index", "del_index"})
               => th'[t].pos = p
        /\ (th[t].pc = "c_append" /\ th'[t].pc = "c_append" /\ th'[t].todo # th[t].todo)
               => \A k \in th[t].todo \ th'[t].todo : th'[t].poss[k] = p

\* C25: append_log_record rotates exactly when write offset + encoded length
\* exceeds data_file_size; then the old active file joins the closed files
\* under its id, the new active file has the next id and the record is at
\* its offset 0; otherwise the active id and the closed files are unchanged
\* and the record is at the old write offset.  The position returned is
\* (active id after the call, offset of the record, encoded length).
C25_RotationCondition ==
    [][AppendStep =>
        LET f == files'[eng'.active]
            size == f[Len(f)].size
        IN IF eng.wofs + size > data_file_size
           THEN /\ eng'.active = eng.active + 1
                /\ eng'.old = eng.old \cup {eng.active}
                /\ eng.active \notin eng.old
                /\ eng'.wofs = size
                /\ ReturnedPos([file_id |-> eng.active + 1, ofs |-> 0, size |-> size])
           ELSE /\ eng'.active = eng.active
                /\ eng'.old = eng.old
                /\ eng'.wofs = eng.wofs + size
                /\ ReturnedPos([file_id |-> eng.active, ofs |-> eng.wofs, size |-> size])]_vars

\* A commit has just appended the first record of a new active file and
\* holds its position, the file it closed being among the closed files.
C25_Witness ==
    /\ Running /\ eng.active > INITIAL_FILE_ID /\ eng.active - 1 \in eng.old
    /\ \E k \in Keys : th["w1"].pc = "c_append" /\ k \notin th["w1"].todo
           /\ th["w1"].poss[k] = [file_id |-> eng.active, ofs |-> 0,
                                  size |-> eng.wofs]

\* C26: no segment holds more than data_file_size bytes: the write offset of
\* the active file and the length of every closed file are at most
\* data_file_size, and no closed file is empty.
C26_SegmentBound ==
    Running =>
        /\ eng.wofs <= data_file_size
        /\ \A i \in eng.old : FileLen(files[i]) <= data_file_size /\ FileLen(files[i]) > 0

\* C27: in a running engine the id of the active file is larger than the id
\* of every closed file, and an open takes the data file with the highest id
\* in the directory for the active file and every other one for a closed
\* file; the rotations of append_log_record and of merge keep this.
C27_ActiveIsHighest ==
    [][/\ eng'.state = "open" => \A i \in eng'.old : i < eng'.active
       /\ (eng.state = "down" /\ eng'.state = "open") =>
             /\ \A i \in DOMAIN files' : i <= eng'.active
             /\ eng'.old = DOMAIN files' \ {eng'.active}]_vars

\* The engine was reopened after a merge that rotated the active file: it
\* runs on the highest file of the directory, with closed files below it.
C27_Witness ==
    /\ Running /\ hist.openRes = "ok" /\ hist.merge = "reopened"
    /\ eng.active > INITIAL_FILE_ID /\ eng.old # {}

\* C28: after open and after every append the write offset of the active
\* file is the byte length of that file, so that the offset of a returned
\* position is the offset at which the appended record starts.
C28_WriteOffsetIsLength ==
    Running => eng.wofs = FileLen(files[eng.active])

\* The sequence numbers of the records of a directory, and of those the
\* startup scan reads (files below the id of merge-finished are skipped).
SeqsOnDisk(fs) == UNION {{fs[i][j].seq : j \in 1..Len(fs[i])} : i \in DOMAIN fs}
ScannedFiles(fs, fn) == [i \in {j \in DOMAIN fs : ~(fn.exists /\ j < fn.fid)} |-> fs[i]]
LargestSeq(S) == IF S = {} THEN NON_TRANSACTION_SEQUENCE
                 ELSE CHOOSE m \in S : \A x \in S : x <= m

C30_ScanBuffersBatches ==
    /\ hist.openRes # "panic"
    /\ Running => \A k \in Keys :
          LET pos == index_get(eng.index, k) IN
          (pos # NoPos /\ pos.file_id \in DOMAIN files) =>
              LET r == read_log_record(files[pos.file_id], pos.ofs) IN
              r.res = "ok" =>
                  r.rec.seq = NON_TRANSACTION_SEQUENCE \/ HasTerminator(files, r.rec.seq)

\* --------------------------------------------------------- put and delete
SetEngFile(a) == [eng EXCEPT !.active = a.active, !.wofs = a.wofs, !.old = a.old]

\* Engine::put with an empty key: KeyIsEmpty.
PutEmptyKey(t, k) ==
    /\ Running /\ th[t].pc = "idle"
    /\ key_is_empty(k)
    /\ ReturnErr(t, "KeyIsEmpty")

\* Engine::put, first half: the record is appended.
PutAppend(t, k, v) ==
    /\ Running /\ th[t].pc = "idle"
    /\ ~key_is_empty(k)
    /\ can_write(eng)
    /\ LET a == EngAppend("Normal", k, v, NON_TRANSACTION_SEQUENCE) IN
       /\ files' = a.files
       /\ eng' = SetEngFile(a)
       /\ th' = [th EXCEPT ![t].pc = "put_index", ![t].key = k, ![t].val = v,
                           ![t].pos = a.pos]
    /\ UNCHANGED <<hint, fin, seqNoFile, mdir, lockHolders, mg, expect, hist>>

\* A put that leaves the index as it was.
index_put_stale(e, k, pos) == e

\* Indexer::put together with the reclaim accounting of its caller.
index_put(e, k, pos) ==
    [e EXCEPT !.index[k] = pos, !.reclaim = @ + e.index[k].size]

\* Indexer::delete together with the reclaim accounting of its caller.
index_delete(e, k) ==
    [e EXCEPT !.index[k] = NoPos, !.reclaim = @ + e.index[k].size]

\* Engine::put, second half: the index is pointed at the record; put returns.
PutIndex(t) ==
    /\ th[t].pc = "put_index"
    /\ eng' = index_put(eng, th[t].key, th[t].pos)
    /\ expect' = [expect EXCEPT ![th[t].key] = Value(th[t].val)]
    /\ th' = [th EXCEPT ![t] = Returned(@)]
    /\ hist' = Wrote(hist)
    /\ UNCHANGED <<disk, lockHolders, mg>>

\* Engine::delete with an empty key: KeyIsEmpty.
DeleteEmptyKey(t, k) ==
    /\ Running /\ th[t].pc = "idle"
    /\ key_is_empty(k)
    /\ ReturnErr(t, "KeyIsEmpty")

\* A lookup that always finds the key.
delete_is_miss_never(index, k) == FALSE

\* Engine::delete: the index lookup finds nothing (pos.is_none()).
delete_is_miss(index, k) == index_get(index, k) = NoPos

\* Engine::delete of a key the index does not hold: Ok, nothing is written.
DeleteMiss(t, k) ==
    /\ Running /\ th[t].pc = "idle"
    /\ ~key_is_empty(k)
    /\ delete_is_miss(eng.index, k)
    /\ ReturnErr(t, "")

\* Engine::delete: the index lookup found the key.
DeleteLookup(t, k) ==
    /\ Running /\ th[t].pc = "idle"
    /\ ~key_is_empty(k)
    /\ ~delete_is_miss(eng.index, k)
    /\ th' = [th EXCEPT ![t].pc = "del_append", ![t].key = k]
    /\ UNCHANGED <<disk, lockHolders, eng, mg, expect, hist>>

\* Engine::delete: the tombstone is appended and its size reclaimed.
DeleteAppend(t) ==
    /\ th[t].pc = "del_append"
    /\ can_write(eng)
    /\ LET a == EngAppend("Deleted", th[t].key, 0, NON_TRANSACTION_SEQUENCE) IN
       /\ files' = a.files
       /\ eng' = [SetEngFile(a) EXCEPT !.reclaim = @ + a.pos.size]
       /\ th' = [th EXCEPT ![t].pc = "del_index", ![t].pos = a.pos]
    /\ UNCHANGED <<hint, fin, seqNoFile, mdir, lockHolders, mg, expect, hist>>

\* Engine::delete: the key leaves the index; delete returns.
DeleteIndex(t) ==
    /\ th[t].pc = "del_index"
    /\ eng' = index_delete(eng, th[t].key)
    /\ expect' = [expect EXCEPT ![th[t].key] = Failure("deleted")]
    /\ th' = [th EXCEPT ![t] = Returned(@)]
    /\ hist' = Wrote(hist)
    /\ UNCHANGED <<disk, lockHolders, mg>>

\* ------------------------------------------------------------------- batch
PendingKeys(t) == {k \in Keys : th[t].pending[k].type # "None"}

\* WriteBatch::put
batch_put(pending, k, v) == [pending EXCEPT ![k] = [type |-> "Normal", val |-> v]]

\* A delete that buffers a tombstone whether or not the index holds the key.
batch_delete_tombstone(pending, index, k) ==
    [pending EXCEPT ![k] = [type |-> "Deleted", val |-> 0]]

\* WriteBatch::delete
batch_delete(pending, index, k) ==
    IF index_get(index, k) = NoPos
    THEN [pending EXCEPT ![k] = NoPend]
    ELSE [pending EXCEPT ![k] = [type |-> "Deleted", val |-> 0]]

BatchPut(t, k, v) ==
    /\ Running /\ th[t].pc = "idle"
    /\ ~key_is_empty(k)
    /\ th' = [th EXCEPT ![t].pending = batch_put(@, k, v), ![t].res = ""]
    /\ UNCHANGED <<disk, lockHolders, eng, mg, expect, hist>>

BatchDelete(t, k) ==
    /\ Running /\ th[t].pc = "idle"
    /\ ~key_is_empty(k)
    /\ th' = [th EXCEPT ![t].pending = batch_delete(@, eng.index, k), ![t].res = ""]
    /\ UNCHANGED <<disk, lockHolders, eng, mg, expect, hist>>

\* WriteBatch::put and WriteBatch::delete with an empty key: KeyIsEmpty.
BatchPutEmptyKey(t, k) ==
    /\ Running /\ th[t].pc = "idle"
    /\ key_is_empty(k)
    /\ ReturnErr(t, "KeyIsEmpty")

BatchDeleteEmptyKey(t, k) ==
    /\ Running /\ th[t].pc = "idle"
    /\ key_is_empty(k)
    /\ ReturnErr(t, "KeyIsEmpty")

\* WriteBatch::commit with nothing pending: Ok, nothing is written.
CommitEmpty(t) ==
    /\ Running /\ th[t].pc = "idle"
    /\ PendingKeys(t) = {}
    /\ ReturnErr(t, "")

\* A commit lock that never makes a committer wait.
lock_commit_free(e, t) == TRUE

\* The batch commit lock: free, or held by a committing thread.
lock_commit(e, t) == e.clock = ""

\* A size test that every batch passes.
exceeds_max_batch_num_never(n, maxn) == FALSE

\* The size test of commit: pending_writes.len() > options.max_batch_num.
exceeds_max_batch_num(n, maxn) == n > maxn

\* Engine::new_write_batch with WriteBatchOptions::max_batch_num = m: thread
\* t goes on with a new, empty batch.
NewBatch(t, m) ==
    /\ Running /\ th[t].pc = "idle"
    /\ th' = [th EXCEPT ![t] = [Idle EXCEPT !.max_batch_num = m]]
    /\ UNCHANGED <<disk, lockHolders, eng, mg, expect, hist>>

\* WriteBatch::commit of a batch with more than max_batch_num entries:
\* ExceedMaxBatchNum, before the commit lock and the sequence number.
CommitExceed(t) ==
    /\ Running /\ th[t].pc = "idle"
    /\ PendingKeys(t) # {}
    /\ exceeds_max_batch_num(Cardinality(PendingKeys(t)), th[t].max_batch_num)
    /\ ReturnErr(t, "ExceedMaxBatchNum")

\* WriteBatch::commit: the commit lock is taken and the sequence number drawn.
CommitBegin(t) ==
    /\ Running /\ th[t].pc = "idle"
    /\ PendingKeys(t) # {}
    /\ ~exceeds_max_batch_num(Cardinality(PendingKeys(t)), th[t].max_batch_num)
    /\ lock_commit(eng, t)
    /\ eng' = [eng EXCEPT !.clock = t, !.seq = @ + 1]
    /\ th' = [th EXCEPT ![t].pc = "c_append", ![t].seq = eng.seq,
                        ![t].todo = PendingKeys(t)]
    /\ hist' = [hist EXCEPT !.snap = Mapping, !.batch = th[t].pending,
                            !.recov = "none", !.merge = "none"]
    /\ UNCHANGED <<disk, lockHolders, mg, expect>>

\* WriteBatch::commit: one pending record is appended under the sequence
\* number (the pending map is iterated in no fixed order).
CommitAppend(t) ==
    /\ th[t].pc = "c_append"
    /\ can_write(eng)
    /\ \E k \in th[t].todo :
         LET a == EngAppend(th[t].pending[k].type, k, th[t].pending[k].val, th[t].seq)
         IN /\ files' = a.files
            /\ eng' = SetEngFile(a)
            /\ th' = [th EXCEPT ![t].todo = @ \ {k}, ![t].poss[k] = a.pos]
    /\ UNCHANGED <<hint, fin, seqNoFile, mdir, lockHolders, mg, expect, hist>>

\* WriteBatch::commit: the terminator is appended.
CommitFin(t) ==
    /\ th[t].pc = "c_append" /\ th[t].todo = {}
    /\ can_write(eng)
    /\ LET a == EngAppend("TxnFinished", TXN_FIN_KEY, 0, th[t].seq) IN
       /\ files' = a.files
       /\ eng' = SetEngFile(a)
    /\ th' = [th EXCEPT ![t].pc = "c_sync"]
    /\ UNCHANGED <<hint, fin, seqNoFile, mdir, lockHolders, mg, expect, hist>>

\* WriteBatch::commit: the sync of the active file after the terminator.
CommitSync(t) ==
    /\ th[t].pc = "c_sync"
    /\ th' = [th EXCEPT ![t].pc = "c_index", ![t].todo = PendingKeys(t)]
    /\ UNCHANGED <<disk, lockHolders, eng, mg, expect, hist>>

\* An index update that skips the buffered puts.
commit_index_deletes_only(e, k, item, pos) ==
    IF item.type = "Deleted" THEN [e EXCEPT !.index[k] = NoPos] ELSE e

\* The index update of commit for one pending item (no reclaim accounting).
commit_index(e, k, item, pos) ==
    IF item.type = "Normal" THEN [e EXCEPT !.index[k] = pos]
    ELSE IF item.type = "Deleted" THEN [e EXCEPT !.index[k] = NoPos]
    ELSE e

\* WriteBatch::commit: the index is updated for one pending item; after the
\* last one the commit lock is released and commit returns.  The pending map
\* is left as it is.
CommitIndex(t) ==
    /\ th[t].pc = "c_index"
    /\ \E k \in th[t].todo :
         LET e1 == commit_index(eng, k, th[t].pending[k], th[t].poss[k])
             last == th[t].todo = {k}
         IN /\ eng' = IF last THEN [e1 EXCEPT !.clock = ""] ELSE e1
            /\ th' = [th EXCEPT ![t] = IF last THEN Returned(@)
                                       ELSE [@ EXCEPT !.todo = @ \ {k}]]
            /\ expect' = [expect EXCEPT ![k] =
                            IF th[t].pending[k].type = "Normal"
                            THEN Value(th[t].pending[k].val)
                            ELSE Failure("deleted")]
            /\ hist' = IF last THEN Wrote(hist) ELSE hist
    /\ UNCHANGED <<disk, lockHolders, mg>>

\* ------------------------------------------------------------- I/O failures
\* Engine::append_log_record returning an error.  at = "rotate_sync": the
\* sync of the full active file fails, nothing has changed.  at = "write":
\* the write fails, after the rotation if one was due; no byte is appended
\* and the write offset stays.
FailPoints == {"rotate_sync", "write"}
append_log_record_failed(fs, a, type, k, v, seq, at) ==
    LET rot == MustRotate(a.wofs, RecordSize(k, v, seq)) /\ at = "write"
        active1 == IF rot THEN a.active + 1 ELSE a.active
    IN [files |-> IF rot /\ active1 \notin DOMAIN fs THEN fs @@ (active1 :> <<>>) ELSE fs,
        active |-> active1,
        wofs |-> IF rot THEN 0 ELSE a.wofs,
        old |-> IF rot THEN a.old \cup {a.active} ELSE a.old]
append_error(at) ==
    IF at = "write" THEN "FailedToWriteToDataFile" ELSE "FailedToSyncToDataFile"

\* A thread back from its call with the error e: only its batch handle is kept.
Failed(w, e) == [Returned(w) EXCEPT !.res = e]

\* Engine::put whose append fails: put returns the error before index.put.
PutFail(t, k, v, at) ==
    /\ Running /\ th[t].pc = "idle"
    /\ ~key_is_empty(k)
    /\ LET a == append_log_record_failed(files, eng, "Normal", k, v,
                                         NON_TRANSACTION_SEQUENCE, at) IN
       /\ files' = a.files
       /\ eng' = SetEngFile(a)
    /\ th' = [th EXCEPT ![t] = Failed(@, append_error(at))]
    /\ UNCHANGED <<hint, fin, seqNoFile, mdir, lockHolders, mg, expect, hist>>

\* Engine::delete whose append fails: delete returns the error before
\* index.delete.
DeleteFail(t, at) ==
    /\ th[t].pc = "del_append"
    /\ LET a == append_log_record_failed(files, eng, "Deleted", th[t].key, 0,
                                         NON_TRANSACTION_SEQUENCE, at) IN
       /\ files' = a.files
       /\ eng' = SetEngFile(a)
    /\ th' = [th EXCEPT ![t] = Failed(@, append_error(at))]
    /\ UNCHANGED <<hint, fin, seqNoFile, mdir, lockHolders, mg, expect, hist>>

\* WriteBatch::commit whose append of a pending record, or of the terminator,
\* fails: commit returns the error, the commit lock is released, the records
\* appended so far stay in the file and the index is not updated.
CommitFail(t, at) ==
    /\ th[t].pc = "c_append"
    /\ \E k \in th[t].todo \cup (IF th[t].todo = {} THEN {TXN_FIN_KEY} ELSE {}) :
         LET a == IF k = TXN_FIN_KEY
                  THEN append_log_record_failed(files, eng, "TxnFinished", k, 0,
                                                th[t].seq, at)
                  ELSE append_log_record_failed(files, eng, th[t].pending[k].type, k,
                                                th[t].pending[k].val, th[t].seq, at)
         IN /\ files' = a.files
            /\ eng' = [SetEngFile(a) EXCEPT !.clock = ""]
    /\ th' = [th EXCEPT ![t] = Failed(@, append_error(at))]
    /\ UNCHANGED <<hint, fin, seqNoFile, mdir, lockHolders, mg, expect, hist>>

\* WriteBatch::commit whose engine.sync() after the terminator fails (the
\* batch option sync_writes is on by default): commit returns the error, the
\* commit lock is released and the index is not updated.
CommitSyncFail(t) ==
    /\ th[t].pc = "c_sync"
    /\ eng' = [eng EXCEPT !.clock = ""]
    /\ th' = [th EXCEPT ![t] = Failed(@, "FailedToSyncToDataFile")]
    /\ UNCHANGED <<disk, lockHolders, mg, expect, hist>>

\* ------------------------------------------------- memory-mapped IO manager
\* Engine::put on an engine whose active file has a memory-mapped IO manager:
\* append_log_record reaches MMapIO::write (or MMapIO::sync, when a rotation
\* is due) and the calling thread panics; nothing is written.
PutPanic(t, k, v) ==
    /\ Running /\ th[t].pc = "idle"
    /\ ~key_is_empty(k)
    /\ ~can_write(eng)
    /\ th' = [th EXCEPT ![t] = Failed(@, "panic")]
    /\ UNCHANGED <<disk, lockHolders, eng, mg, expect, hist>>

\* Engine::delete on such an engine, after the index lookup.
DeletePanic(t) ==
    /\ th[t].pc = "del_append"
    /\ ~can_write(eng)
    /\ th' = [th EXCEPT ![t] = Failed(@, "panic")]
    /\ UNCHANGED <<disk, lockHolders, eng, mg, expect, hist>>

\* Drop for such an engine: close writes the seq-no record and panics in the
\* sync of the active file, before the unlock; the instance is gone and the
\* directory lock goes with its file descriptor.
DropPanic ==
    /\ Running /\ Quiet
    /\ ~can_write(eng)
    /\ LET c == close_effect(seqNoFile, lockHolders, eng) IN
       /\ seqNoFile' = c.seqNoFile
       /\ lockHolders' = c.lockHolders
    /\ eng' = Down
    /\ th' = [t \in Writers |-> Idle]
    /\ mg' = MergeIdle
    /\ hist' = [hist EXCEPT !.openRes = "closed by panic"]
    /\ UNCHANGED <<files, hint, fin, mdir, expect>>

\* ---------------------------------------------------------------- iterator
\* BTreeIterator::next on the iterator of thread t.
IterNext(t) ==
    /\ LET it == th[t].it
           n == next(it, it.curr_index)
       IN th' = [th EXCEPT ![t].it =
                    [it EXCEPT !.curr_index = n.curr_index,
                               !.out = IF n.ret.some THEN Append(@, n.ret.key) ELSE @,
                               !.last = IF n.ret.some THEN "some" ELSE "none"]]
    /\ UNCHANGED <<disk, lockHolders, eng, mg, expect, hist>>

\* BTreeIterator::seek on the iterator of thread t.
IterSeek(t, key) ==
    /\ th' = [th EXCEPT ![t].it =
                 [@ EXCEPT !.curr_index = seek(th[t].it, key),
                           !.seeked = SomeIterKey(key), !.start = seek(th[t].it, key),
                           !.out = <<>>, !.last = "new"]]
    /\ UNCHANGED <<disk, lockHolders, eng, mg, expect, hist>>

\* BTreeIterator::rewind on the iterator of thread t.
IterRewind(t) ==
    /\ th' = [th EXCEPT ![t].it =
                 [@ EXCEPT !.curr_index = 0, !.seeked = NoIterKey, !.start = 0,
                           !.out = <<>>, !.last = "new"]]
    /\ UNCHANGED <<disk, lockHolders, eng, mg, expect, hist>>

\* ------------------------------------------------------------------- merge
\* An emptiness test that no engine passes.
is_empty_engine_never(e) == FALSE

\* Engine::is_empty_engine
is_empty_engine(e) == e.wofs = 0 /\ e.old = {}

\* Bytes of the data files of a directory.
RECURSIVE SegBytes(_)
SegBytes(fs) ==
    IF DOMAIN fs = {} THEN 0
    ELSE LET i == CHOOSE j \in DOMAIN fs : TRUE
         IN FileLen(fs[i]) + SegBytes([j \in DOMAIN fs \ {i} |-> fs[j]])

\* Decimal digits of n, the length of n.to_string().
Digits(n) == IF n < 10 THEN 1 ELSE IF n < 100 THEN 2 ELSE 3

\* Bytes of the hint-index, merge-finished and seq-no files: one record per
\* hint entry (key, three varints), the merge-finished record (key
\* "merge-finished", the id in decimal) and one seq-no record per close (key
\* "seq-no", the number in decimal).
HintBytes(hn) == Len(hn.recs) * get_encoded_record_length(1, 3)
FinBytes(fn) == IF fn.exists THEN get_encoded_record_length(14, Digits(fn.fid)) ELSE 0
RECURSIVE SeqNoBytes(_)
SeqNoBytes(sf) ==
    IF sf = <<>> THEN 0
    ELSE get_encoded_record_length(6, Digits(Head(sf))) + SeqNoBytes(Tail(sf))

\* utils::file::dir_disk_size of the engine directory: the bytes of all its
\* files (the lock file is empty; the merge directory is a sibling).
dir_disk_size(fs, hn, fn, sf) == SegBytes(fs) + HintBytes(hn) + FinBytes(fn) + SeqNoBytes(sf)

\* A ratio test that every engine passes.
ratio_unreached_never(ratio, reclaim, total) == FALSE

\* The ratio test of merge, (reclaim_size / total_size) < data_file_merge_ratio,
\* with the ratio given in percent.
ratio_unreached(ratio, reclaim, total) == reclaim * 100 < ratio * total

\* A merge lock that is granted whoever holds it.
try_lock_merge_blind(m) == TRUE

\* merge_lock.try_lock(): the lock is free when no merge() call is past it.
try_lock_merge(m) == m.pc = "idle"

\* A merge() call on an empty engine: Ok, before the merge lock is tried;
\* nothing is touched.
MergeEmpty ==
    /\ Running /\ mg.pc = "idle"
    /\ is_empty_engine(eng)
    /\ mg' = [mg EXCEPT !.res = ""]
    /\ hist' = [hist EXCEPT !.merge = "noop"]
    /\ UNCHANGED <<disk, lockHolders, eng, th, expect>>

\* A merge() call by thread t while the merge lock is held: MergeInProgress,
\* nothing is touched.
MergeBusy(t) ==
    /\ Running /\ th[t].pc = "idle"
    /\ ~is_empty_engine(eng)
    /\ ~try_lock_merge(mg)
    /\ ReturnErr(t, "MergeInProgress")

\* A merge() call on an engine below its merge ratio: MergeRationUnreached,
\* the merge lock is released, nothing is touched.
MergeRatioUnreached ==
    /\ Running
    /\ ~is_empty_engine(eng)
    /\ try_lock_merge(mg)
    /\ ratio_unreached(eng.ratio, eng.reclaim, dir_disk_size(files, hint, fin, seqNoFile))
    /\ mg' = [mg EXCEPT !.res = "MergeRationUnreached"]
    /\ UNCHANGED <<disk, lockHolders, eng, th, expect, hist>>

\* Engine::merge up to the fresh merge directory: the merge lock is taken,
\* the ratio is tested, a stale merge directory is removed.
MergeBegin ==
    /\ Running
    /\ ~is_empty_engine(eng)
    /\ try_lock_merge(mg)
    /\ ~ratio_unreached(eng.ratio, eng.reclaim, dir_disk_size(files, hint, fin, seqNoFile))
    /\ mdir' = [exists |-> TRUE, files |-> <<>>, hint |-> NoFile, fin |-> NoFin]
    /\ mg' = [MergeIdle EXCEPT !.pc = "rotate"]
    /\ hist' = [hist EXCEPT !.merge = "run", !.snap = Mapping]
    /\ UNCHANGED <<files, hint, fin, seqNoFile, lockHolders, eng, th, expect>>

\* A replacement of the active file that leaves the closed one out of the
\* map of old files.
get_merge_files_forget(fs, e) ==
    [files |-> IF e.active + 1 \in DOMAIN fs THEN fs ELSE fs @@ (e.active + 1 :> <<>>),
     eng |-> [e EXCEPT !.active = e.active + 1, !.wofs = 0],
     cands |-> SortedSeq(e.old \cup {e.active})]

\* Engine::get_merge_files: the active file is closed into the map of old
\* files, a new active file with the next id is created, and the merge
\* candidates are all old files, sorted.
get_merge_files(fs, e) ==
    [files |-> IF e.active + 1 \in DOMAIN fs THEN fs ELSE fs @@ (e.active + 1 :> <<>>),
     eng |-> [e EXCEPT !.active = e.active + 1, !.wofs = 0,
                       !.old = e.old \cup {e.active}],
     cands |-> SortedSeq(e.old \cup {e.active})]

\* Engine::merge: get_merge_files, then the sub-engine is opened on the merge
\* directory (its first data file is created) and the hint file is created.
MergeRotate ==
    /\ mg.pc = "rotate"
    /\ can_write(eng)
    /\ LET g == get_merge_files(files, eng) IN
       /\ files' = g.files
       /\ eng' = g.eng
       /\ mg' = [mg EXCEPT !.pc = "scan", !.cands = g.cands, !.ci = 1, !.ofs = 0,
                           !.mactive = INITIAL_FILE_ID, !.mwofs = 0]
    /\ mdir' = [mdir EXCEPT !.files = (INITIAL_FILE_ID :> <<>>),
                            !.hint = [exists |-> TRUE, recs |-> <<>>]]
    /\ UNCHANGED <<hint, fin, seqNoFile, lockHolders, th, expect, hist>>

\* A merge that copies every record of a user key.
IsLive_any(index, key, fid, ofs) == key \in Keys

\* The liveness test of merge: the index holds the key at this file and offset.
IsLive(index, key, fid, ofs) ==
    /\ key \in Keys
    /\ index[key] # NoPos
    /\ index[key].file_id = fid
    /\ index[key].ofs = ofs

\* Engine::merge, one iteration of the loop over the records of the candidate
\* files: a live record is appended to the sub-engine under sequence 0 and a
\* hint record with its new position is written.
MergeScan ==
    /\ mg.pc = "scan"
    /\ LET fid == mg.cands[mg.ci]
           r == read_log_record(files[fid], mg.ofs)
       IN IF r.res = "ReadDataFileEOF"
          THEN /\ mg' = IF mg.ci = Len(mg.cands)
                        THEN [mg EXCEPT !.pc = "sync"]
                        ELSE [mg EXCEPT !.ci = @ + 1, !.ofs = 0]
               /\ UNCHANGED <<mdir, hist>>
          ELSE IF r.res # "ok"
          THEN \* the read error is returned; the sub-engine is dropped
               /\ mg' = MergeIdle
               /\ hist' = [hist EXCEPT !.merge = "none"]
               /\ UNCHANGED mdir
          ELSE IF IsLive(eng.index, r.rec.key, fid, mg.ofs)
          THEN LET a == append_log_record(mdir.files,
                            [active |-> mg.mactive, wofs |-> mg.mwofs, old |-> {}],
                            r.rec.type, r.rec.key, r.rec.val, NON_TRANSACTION_SEQUENCE)
               IN /\ mdir' = [mdir EXCEPT !.files = a.files,
                                !.hint.recs = Append(@, [key |-> r.rec.key, pos |-> a.pos])]
                  /\ mg' = [mg EXCEPT !.ofs = @ + r.rec.size, !.mactive = a.active,
                                      !.mwofs = a.wofs]
                  /\ UNCHANGED hist
          ELSE /\ mg' = [mg EXCEPT !.ofs = @ + r.rec.size]
               /\ UNCHANGED <<mdir, hist>>
    /\ UNCHANGED <<files, hint, fin, seqNoFile, lockHolders, eng, th, expect>>

\* Engine::merge: the sub-engine and the hint file are synced and the
\* merge-finished file is created.
MergeFinCreate ==
    /\ mg.pc = "sync"
    /\ mdir' = [mdir EXCEPT !.fin = [exists |-> TRUE, fid |-> 0]]
    /\ mg' = [mg EXCEPT !.pc = "finwrite"]
    /\ UNCHANGED <<files, hint, fin, seqNoFile, lockHolders, eng, th, expect, hist>>

\* An id that names the last candidate itself as the first unmerged file.
non_merge_file_id_last(cands) == cands[Len(cands)]

\* non_merge_file_id of merge: the id after the last candidate.
non_merge_file_id(cands) == cands[Len(cands)] + 1

\* Engine::merge: the merge-finished record is written and synced; merge
\* returns and the sub-engine is dropped.
MergeFinWrite ==
    /\ mg.pc = "finwrite"
    /\ mdir' = [mdir EXCEPT !.fin.fid = non_merge_file_id(mg.cands)]
    /\ mg' = MergeIdle
    /\ hist' = [hist EXCEPT !.merge = IF @ = "run" THEN "done" ELSE @]
    /\ UNCHANGED <<files, hint, fin, seqNoFile, lockHolders, eng, th, expect>>

\* ------------------------------------------------- another engine instance
\* Engine::open of another instance on the same directory while the lock is
\* held: DatabaseInUse.
OtherOpenInUse ==
    /\ "other" \notin lockHolders
    /\ ~try_lock_exclusive(lockHolders, "other")
    /\ hist' = [hist EXCEPT !.otherRes = "DatabaseInUse"]
    /\ UNCHANGED <<disk, lockHolders, eng, th, mg, expect>>

\* Engine::open of another instance when the lock is free: it takes the lock
\* and absorbs the merge directory as every open does.
OtherOpen ==
    /\ "other" \notin lockHolders
    /\ try_lock_exclusive(lockHolders, "other")
    /\ \E o \in {OpenEngine(files, hint, fin, mdir)} :
       /\ files' = o.files
       /\ hint' = o.hint
       /\ fin' = o.fin
       /\ mdir' = o.mdir
       /\ lockHolders' = IF o.err = "" THEN lockHolders \cup {"other"} ELSE lockHolders
       /\ hist' = [hist EXCEPT !.otherRes = IF o.err = "" THEN "ok" ELSE o.err]
    /\ UNCHANGED <<seqNoFile, eng, th, mg, expect>>

\* The other instance is closed and dropped: its seq-no record, the unlock.
OtherClose ==
    /\ "other" \in lockHolders
    /\ seqNoFile' = Append(seqNoFile, OpenEngine(files, hint, fin, mdir).eng.seq)
    /\ lockHolders' = lockHolders \ {"other"}
    /\ hist' = [hist EXCEPT !.otherRes = ""]
    /\ UNCHANGED <<files, hint, fin, mdir, eng, th, mg, expect>>

\* ------------------------------------------------------------------- crash
\* History: what the caller was in the middle of when the process died.
InFlight ==
    IF \E t \in Writers : th[t].pc = "c_append" THEN "commit_before_fin"
    ELSE IF \E t \in Writers : th[t].pc = "c_sync" THEN "commit_after_fin"
    ELSE IF \E t \in Writers : th[t].pc = "c_index" THEN "commit_after_sync"
    ELSE IF mg.pc \in {"rotate", "scan", "sync"} THEN "merge_before_fin"
    ELSE IF mg.pc = "finwrite" THEN "merge_fin_empty"
    ELSE IF Quiet THEN "quiet"
    ELSE "other"

\* The process is killed: the memory of the engine and of its threads is
\* gone, the lock is released, the directories are as the writes left them.
Crash ==
    /\ eng.state \in {"open", "closed"}
    /\ eng' = Down
    /\ th' = [t \in Writers |-> Idle]
    /\ mg' = MergeIdle
    /\ lockHolders' = lockHolders \ {"eng"}
    /\ hist' = [hist EXCEPT !.crash = InFlight, !.recov = "none", !.merge = "none",
                            !.snap = IF InFlight \in {"quiet", "other"} THEN Mapping ELSE @]
    /\ UNCHANGED <<disk, expect>>

\* The process is killed inside the write of put(k, v): only the first n
\* bytes of the record reach the active file.
TornCrash(k, v, n) ==
    /\ Running /\ Quiet
    /\ n < RecordSize(k, v, NON_TRANSACTION_SEQUENCE)
    /\ LET a == EngAppend("Torn", k, v, NON_TRANSACTION_SEQUENCE) IN
         files' = [a.files EXCEPT ![a.active] =
                      [@ EXCEPT ![Len(@)] = [@ EXCEPT !.size = n]]]
    /\ eng' = Down
    /\ th' = [t \in Writers |-> Idle]
    /\ mg' = MergeIdle
    /\ lockHolders' = lockHolders \ {"eng"}
    /\ hist' = [hist EXCEPT !.crash = "torn", !.recov = "none", !.merge = "none",
                            !.snap = Mapping]
    /\ UNCHANGED <<hint, fin, seqNoFile, mdir, expect>>

\* load_merge_files killed on its way through a finished merge directory:
\* the old segments with an id below d are deleted (the loop over
\* 0..non_merge_fid got that far), and when that loop is through, the files
\* mv of the merge directory are renamed into the engine directory (read_dir
\* yields them in no fixed order).
load_merge_files_killed(fs, hn, fn, md, d, mv) ==
    LET kept == {i \in DOMAIN fs : i >= d} IN
    [files |-> [i \in kept \cup mv.files |->
                   IF i \in mv.files THEN md.files[i] ELSE fs[i]],
     hint |-> IF mv.hint THEN md.hint ELSE hn,
     fin |-> IF mv.fin THEN md.fin ELSE fn,
     mdir |-> [md EXCEPT !.files = [i \in DOMAIN md.files \ mv.files |-> md.files[i]],
                         !.hint = IF mv.hint THEN NoFile ELSE @,
                         !.fin = IF mv.fin THEN NoFin ELSE @]]

\* The names load_merge_files collects from the merge directory.
merge_file_names(md) ==
    [files |-> {i \in DOMAIN md.files : Len(md.files[i]) > 0},
     hint |-> md.hint.exists, fin |-> md.fin.exists]

\* History: the mapping the caller has been told, as get reports it.
Promised(ex) == [k \in Keys |-> IF ex[k].res = "ok" THEN ex[k] ELSE Failure("KeyNotFound")]

\* Engine::open is killed inside load_merge_files, after the merge-finished
\* record was read: the lock is released with the process.
LoadCrash ==
    /\ eng.state = "down" /\ try_lock_exclusive(lockHolders, "eng")
    /\ mdir.exists /\ merge_finished(mdir) /\ mdir.fin.fid # 0
    /\ \E d \in 0..mdir.fin.fid :
       \E mf \in SUBSET merge_file_names(mdir).files, mh \in BOOLEAN, mn \in BOOLEAN :
          /\ mh => merge_file_names(mdir).hint
          /\ (d < mdir.fin.fid) => (mf = {} /\ ~mh /\ ~mn)
          /\ LET l == load_merge_files_killed(files, hint, fin, mdir, d,
                                               [files |-> mf, hint |-> mh, fin |-> mn])
             IN /\ files' = l.files
                /\ hint' = l.hint
                /\ fin' = l.fin
                /\ mdir' = l.mdir
    /\ hist' = [hist EXCEPT !.crash = "load_merge", !.recov = "none",
                            !.snap = Promised(expect)]
    /\ UNCHANGED <<seqNoFile, lockHolders, eng, th, mg, expect>>

\* ---------------------------------------------------------- specifications
\* The bounds of a specification: n more records fit, the next file id fits,
\* the seq-no file takes one more record.
Room(n) == Entries(files) + n <= MaxAppends /\ eng.active < MaxFileId
CloseRoom == Len(seqNoFile) < MaxCloses
ConcRoom(n) == Entries(files) + n <= MaxConcAppends /\ eng.active < MaxFileId

\* One caller: every operation runs to its end before the next one starts.
SeqWriter(t) ==
    \/ \E k \in Keys, v \in Values : Quiet /\ Room(1) /\ PutAppend(t, k, v)
    \/ PutIndex(t)
    \/ \E k \in Keys : Quiet /\ DeleteMiss(t, k)
    \/ \E k \in Keys : Quiet /\ Room(1) /\ DeleteLookup(t, k)
    \/ DeleteAppend(t)
    \/ DeleteIndex(t)
    \/ \E k \in Keys, v \in Values : Quiet /\ BatchPut(t, k, v)
    \/ \E k \in Keys : Quiet /\ BatchDelete(t, k)
    \/ Quiet /\ CommitEmpty(t)
    \/ Quiet /\ Room(Cardinality(PendingKeys(t)) + 1) /\ CommitBegin(t)
    \/ CommitAppend(t)
    \/ CommitFin(t)
    \/ CommitSync(t)
    \/ CommitIndex(t)

SeqMerge ==
    \/ Quiet /\ MergeEmpty
    \/ Quiet /\ eng.active < MaxFileId /\ MergeBegin
    \/ MergeRotate
    \/ MergeScan
    \/ MergeFinCreate
    \/ MergeFinWrite

Next ==
    \/ SeqWriter("w1")
    \/ SeqMerge
    \/ Open
    \/ CloseRoom /\ Drop

Spec == Init /\ [][Next]_vars

\* One caller of put, delete and batches; the process may be killed in the
\* middle of any call.
NextCrash ==
    \/ SeqWriter("w1")
    \/ Open
    \/ CloseRoom /\ Drop
    \/ ~Quiet /\ Crash
SpecCrash == Init /\ [][NextCrash]_vars

\* The caller of SpecCrash; a kill inside a write may leave a torn record.
NextTorn ==
    \/ NextCrash
    \/ \E k \in Keys, v \in Values, n \in TornLens : Room(1) /\ TornCrash(k, v, n)
SpecTorn == Init /\ [][NextTorn]_vars

\* One thread in put, delete and batch commits while another runs merge();
\* the engine is closed and reopened between calls.
ConcWriter(t) ==
    \/ \E k \in Keys, v \in Values : ConcRoom(1) /\ PutAppend(t, k, v)
    \/ PutIndex(t)
    \/ \E k \in Keys : DeleteMiss(t, k)
    \/ \E k \in Keys : ConcRoom(1) /\ DeleteLookup(t, k)
    \/ DeleteAppend(t)
    \/ DeleteIndex(t)
    \/ \E k \in Keys, v \in Values : BatchPut(t, k, v)
    \/ \E k \in Keys : BatchDelete(t, k)
    \/ CommitEmpty(t)
    \/ ConcRoom(Cardinality(PendingKeys(t)) + 1) /\ CommitBegin(t)
    \/ CommitAppend(t)
    \/ CommitFin(t)
    \/ CommitSync(t)
    \/ CommitIndex(t)

ConcMerge ==
    \/ MergeEmpty
    \/ eng.active < MaxFileId /\ MergeBegin
    \/ MergeRotate
    \/ MergeScan
    \/ MergeFinCreate
    \/ MergeFinWrite

NextMerge ==
    \/ ConcWriter("w1")
    \/ ConcMerge
    \/ Open
    \/ CloseRoom /\ Drop
SpecMerge == Init /\ [][NextMerge]_vars

\* Two threads in put, delete and batch commits on one engine.
NextWriters ==
    \/ \E t \in Writers : ConcWriter(t)
    \/ Open
SpecWriters == Init /\ [][NextWriters]_vars

\* Two engine instances on one directory: each is opened, closed and
\* dropped; the first one serves puts.
NextLock ==
    \/ Open
    \/ OpenInUse
    \/ CloseRoom /\ Close
    \/ (CloseRoom \/ eng.state = "closed") /\ Drop
    \/ OtherOpen
    \/ OtherOpenInUse
    \/ CloseRoom /\ OtherClose
    \/ \E k \in Keys, v \in Values : Quiet /\ Room(1) /\ PutAppend("w1", k, v)
    \/ PutIndex("w1")
SpecLock == Init /\ [][NextLock]_vars

\* The caller of Spec; the process may be killed in the middle of a merge.
NextMergeCrash ==
    \/ Next
    \/ mg.pc # "idle" /\ Crash
SpecMergeCrash == Init /\ [][NextMergeCrash]_vars

\* The caller of Spec; an open may be killed while it absorbs a finished merge.
NextLoadCrash ==
    \/ Next
    \/ LoadCrash
SpecLoadCrash == Init /\ [][NextLoadCrash]_vars

\* One caller that may pass any key, the empty one included, to put, delete
\* and the batch.
ArgWriter(t) ==
    \/ \E k \in AllKeys : Quiet /\ PutEmptyKey(t, k)
    \/ \E k \in AllKeys, v \in Values : Quiet /\ Room(1) /\ PutAppend(t, k, v)
    \/ PutIndex(t)
    \/ \E k \in AllKeys : Quiet /\ DeleteEmptyKey(t, k)
    \/ \E k \in AllKeys : Quiet /\ DeleteMiss(t, k)
    \/ \E k \in AllKeys : Quiet /\ Room(1) /\ DeleteLookup(t, k)
    \/ DeleteAppend(t)
    \/ DeleteIndex(t)
    \/ \E k \in AllKeys : Quiet /\ BatchPutEmptyKey(t, k)
    \/ \E k \in AllKeys, v \in Values : Quiet /\ BatchPut(t, k, v)
    \/ \E k \in AllKeys : Quiet /\ BatchDeleteEmptyKey(t, k)
    \/ \E k \in AllKeys : Quiet /\ BatchDelete(t, k)
    \/ Quiet /\ CommitEmpty(t)
    \/ Quiet /\ Room(Cardinality(PendingKeys(t)) + 1) /\ CommitBegin(t)
    \/ CommitAppend(t)
    \/ CommitFin(t)
    \/ CommitSync(t)
    \/ CommitIndex(t)

NextArgs ==
    \/ ArgWriter("w1")
    \/ Open
    \/ CloseRoom /\ Drop
SpecArgs == Init /\ [][NextArgs]_vars

\* One caller that writes through a batch only; its bounds let two commits
\* of one record each reach the segments.
BatchRoom(n) == Entries(files) + n <= MaxBatchAppends /\ eng.active < MaxBatchFileId

BatchWriter(t) ==
    \/ \E m \in BatchNums : Quiet /\ NewBatch(t, m)
    \/ Quiet /\ CommitExceed(t)
    \/ \E k \in Keys, v \in Values : Quiet /\ BatchPut(t, k, v)
    \/ \E k \in Keys : Quiet /\ BatchDelete(t, k)
    \/ Quiet /\ CommitEmpty(t)
    \/ Quiet /\ BatchRoom(Cardinality(PendingKeys(t)) + 1) /\ CommitBegin(t)
    \/ CommitAppend(t)
    \/ CommitFin(t)
    \/ CommitSync(t)
    \/ CommitIndex(t)

NextBatch ==
    \/ BatchWriter("w1")
    \/ Open
    \/ CloseRoom /\ Drop
SpecBatch == Init /\ [][NextBatch]_vars

\* One caller of put, delete and batches whose puts may carry a value so
\* long that the record alone is larger than data_file_size.
BigValues == {16}
NextBig ==
    \/ SeqWriter("w1")
    \/ \E k \in Keys, v \in BigValues : Quiet /\ Room(1) /\ PutAppend("w1", k, v)
    \/ Open
    \/ CloseRoom /\ Drop
SpecBig == Init /\ [][NextBig]_vars

\* One caller whose appends and syncs may fail, and close/reopen.  A failed
\* commit has drawn its sequence number, so the numbers drawn are bounded.
FaultWriter(t) ==
    \/ eng.seq <= MaxFaultSeq /\ SeqWriter(t)
    \/ \E k \in Keys, v \in Values, at \in FailPoints : Quiet /\ Room(1) /\ PutFail(t, k, v, at)
    \/ \E at \in FailPoints : DeleteFail(t, at)
    \/ \E at \in FailPoints : CommitFail(t, at)
    \/ CommitSyncFail(t)
NextFault ==
    \/ FaultWriter("w1")
    \/ Quiet /\ Open
    \/ Quiet /\ CloseRoom /\ Drop
SpecFault == Init /\ [][NextFault]_vars

\* One caller of put and delete.
PlainWriter(t) ==
    \/ \E k \in Keys, v \in Values : Quiet /\ Room(1) /\ PutAppend(t, k, v)
    \/ PutIndex(t)
    \/ \E k \in Keys : Quiet /\ DeleteMiss(t, k)
    \/ \E k \in Keys : Quiet /\ Room(1) /\ DeleteLookup(t, k)
    \/ DeleteAppend(t)
    \/ DeleteIndex(t)

\* One caller of put and delete, a thread that merges, and merge() calls of
\* the other threads while it does.
NextMergeLock ==
    \/ PlainWriter("w1")
    \/ (\A t \in Writers : th[t].pc = "idle") /\ MergeBegin
    \/ eng.active < MaxFileId /\ MergeRotate
    \/ MergeScan
    \/ MergeFinCreate
    \/ MergeFinWrite
    \/ \E t \in Writers : MergeBusy(t)
    \/ Open
    \/ CloseRoom /\ Drop
SpecMergeLock == Init /\ [][NextMergeLock]_vars

\* One caller of put, delete and merge on an engine opened with a merge
\* ratio of 0 or of one half.
NextRatio ==
    \/ PlainWriter("w1")
    \/ SeqMerge
    \/ Quiet /\ MergeRatioUnreached
    \/ \E r \in MergeRatios : OpenWith(r)
    \/ CloseRoom /\ Drop
SpecRatio == Init /\ [][NextRatio]_vars

\* One caller of put and delete on an engine opened with any index type and
\* with standard or memory-mapped IO at startup.
NextIo ==
    \/ PlainWriter("w1")
    \/ \E k \in Keys, v \in Values : Quiet /\ PutPanic("w1", k, v)
    \/ DeletePanic("w1")
    \/ \E o \in IoOptions : OpenOpts(data_file_merge_ratio, o[1], o[2])
    \/ CloseRoom /\ Drop
    \/ CloseRoom /\ DropPanic
SpecIo == Init /\ [][NextIo]_vars

\* An iterator over any snapshot of keys, with any prefix and direction, on
\* which next, seek and rewind are called in any order.
InitIter ==
    /\ files = <<>>
    /\ hint = NoFile
    /\ fin = NoFin
    /\ seqNoFile = <<>>
    /\ mdir = NoDir
    /\ lockHolders = {}
    /\ eng = Down
    /\ \E S \in SUBSET IterKeys, p \in IterPrefixes, r \in BOOLEAN :
          /\ Cardinality(S) <= MaxSnapKeys
          /\ th = [t \in Writers |-> IF t = "w1" THEN [Idle EXCEPT !.it = iterator(S, p, r)]
                                  ELSE Idle]
    /\ mg = MergeIdle
    /\ expect = [k \in Keys |-> Failure("absent")]
    /\ hist = NoHist

NextIter ==
    \/ IterNext("w1")
    \/ \E key \in IterKeys : IterSeek("w1", key)
    \/ IterRewind("w1")
SpecIter == InitIter /\ [][NextIter]_vars

\* ------------------------------------------------------------------ claims
\* C1: after a successful put(k, v), every get(k) returns exactly v until a
\* later put or delete on k is acknowledged, in the running engine and after
\* the engine was closed and reopened on the same directory.
C1_PutThenGet ==
    (Running /\ Quiet) =>
        \A k \in Keys : expect[k].res = "ok" => Get(k) = expect[k]

\* A reopened engine serving a value that was put before the close.
C1_Witness ==
    /\ Running /\ Quiet /\ Len(seqNoFile) >= 1
    /\ \E k \in Keys : expect[k].res = "ok" /\ Get(k) = expect[k]

\* C2: after a successful delete(k) of a present key, get(k) returns
\* KeyNotFound until a later put(k, _), in the running engine and after close
\* and reopen, where the tombstone is replayed.
C2_DeleteThenGet ==
    (Running /\ Quiet) =>
        \A k \in Keys : expect[k].res = "deleted" => Get(k).res = "KeyNotFound"

\* A reopened engine that replayed the tombstone of a deleted key.
C2_Witness ==
    /\ Running /\ Quiet /\ Len(seqNoFile) >= 1
    /\ \E k \in Keys :
         /\ expect[k].res = "deleted" /\ Get(k).res = "KeyNotFound"
         /\ \E i \in DOMAIN files : \E j \in 1..Len(files[i]) :
              files[i][j].type = "Deleted" /\ files[i][j].key = k

\* History: the mapping a committed batch turns the mapping snap into.
Applied(snap, batch) ==
    [k \in Keys |->
        IF batch[k].type = "Normal" THEN Value(batch[k].val)
        ELSE IF batch[k].type = "Deleted" THEN Failure("KeyNotFound")
        ELSE snap[k]]

CommitCrashes == {"commit_before_fin", "commit_after_fin", "commit_after_sync"}

C5_MergePreserves ==
    (Running /\ hist.merge = "reopened") =>
        /\ Mapping = hist.snap
        /\ list_keys(eng) = {k \in Keys : hist.snap[k].res = "ok"}

\* A reopened engine running on merged files: a key live before the merge is
\* served from the position its hint record names, and the merged segments
\* hold one record per live key.
C5_Witness ==
    /\ Running /\ hist.merge = "reopened" /\ fin.exists /\ hint.exists
    /\ \E k \in Keys :
          /\ hist.snap[k].res = "ok" /\ Get(k) = hist.snap[k]
          /\ \E x \in 1..Len(hint.recs) : hint.recs[x].key = k
    /\ Entries(files) = Cardinality(list_keys(eng))
    /\ \A i \in DOMAIN files : \A x \in 1..Len(files[i]) : files[i][x].type = "Normal"

\* C10: an open that finds the merge directory without a merge-finished file
\* succeeds, removes the merge directory, leaves every segment of the engine
\* directory as it was, and serves the mapping from before the merge started.
C10_UnfinishedMergeDiscarded ==
    [][(eng.state = "down" /\ mdir.exists /\ ~mdir.fin.exists /\ hist' # hist)
          => /\ eng'.state = "open"
             /\ ~mdir'.exists
             /\ files' = files
             /\ Mapping' = hist.snap]_vars

\* An engine reopened after a merge was killed while it was copying records:
\* the merge directory is gone, the stale records are still in the segments.
C10_Witness ==
    /\ Running /\ hist.recov = "merge_before_fin" /\ ~mdir.exists /\ ~fin.exists
    /\ \E k \in Keys : Get(k).res = "ok"
    /\ eng.reclaim > 0

\* C6: every put, delete or batch commit acknowledged on one thread while
\* merge() runs on another is still reflected by get and list_keys once the
\* merge has finished and the engine was closed and reopened onto the merged
\* files; in particular that reopen succeeds.
C6_AckedWritesSurviveMerge ==
    /\ eng.state = "down" => hist.openRes \in {"", "ok"}
    /\ (Running /\ Quiet /\ fin.exists) =>
          /\ \A k \in Keys :
                IF expect[k].res = "ok" THEN Get(k) = expect[k]
                ELSE Get(k).res = "KeyNotFound"
          /\ list_keys(eng) = {k \in Keys : expect[k].res = "ok"}

RECURSIVE Concat(_, _)
Concat(fs, ids) ==
    IF Len(ids) = 0 THEN <<>> ELSE fs[Head(ids)] \o Concat(fs, Tail(ids))
Log == Concat(files, SortedSeq(DOMAIN files))

\* C8 as stated: between two records of one batch (its terminator included)
\* the log holds no record of any other writer, batched or not.
C8_BatchContiguous ==
    \A i, j, l \in 1..Len(Log) :
        (i < j /\ j < l /\ Log[i].seq > 0 /\ Log[l].seq = Log[i].seq)
            => Log[j].seq = Log[i].seq

\* C8 amended: between two records of one batch (its terminator included)
\* the log holds no record of another batch; records of non-batched put and
\* delete calls may lie there.
C8_NoOtherBatchInside ==
    \A i, j, l \in 1..Len(Log) :
        (i < j /\ j < l /\ Log[i].seq > 0 /\ Log[l].seq = Log[i].seq)
            => Log[j].seq \in {Log[i].seq, NON_TRANSACTION_SEQUENCE}

\* A put's record lies between a batch's record and its terminator, while
\* the other thread, its own batch filled, is kept out by the commit lock.
C8_Witness ==
    /\ \E i, j, l \in 1..Len(Log) :
          /\ i < j /\ j < l
          /\ Log[i].seq > 0 /\ Log[l].seq = Log[i].seq /\ Log[l].type = "TxnFinished"
          /\ Log[j].seq = NON_TRANSACTION_SEQUENCE
    /\ eng.clock # ""
    /\ \E t \in Writers \ {eng.clock} : PendingKeys(t) # {} /\ th[t].pc = "idle"

\* C9: after a kill that left a torn record at the tail of the last segment
\* the next open succeeds and serves exactly the complete records, the torn
\* bytes being taken for the end of the segment.
C9_TornTailIsEof ==
    [][(hist.crash = "torn" /\ eng.state = "down" /\ hist' # hist)
          => (eng'.state = "open" /\ Mapping' = hist.snap)]_vars

\* C11: after a kill of open at any step of load_merge_files (some old
\* segments deleted, or some files of the merge directory renamed into the
\* engine directory, in any order) the next open succeeds and serves the
\* mapping the caller had before: no live key is lost.
C11_LoadMergeCrashSafe ==
    [][(hist.crash = "load_merge" /\ eng.state = "down" /\ hist' # hist)
          => (eng'.state = "open" /\ Mapping' = hist.snap)]_vars

\* The first step of put(k, v), delete(k) and of the batch's put(k, v) and
\* delete(k) by thread t.
PutCall(t, k, v) == PutEmptyKey(t, k) \/ PutAppend(t, k, v)
DeleteCall(t, k) == DeleteEmptyKey(t, k) \/ DeleteMiss(t, k) \/ DeleteLookup(t, k)
BatchPutCall(t, k, v) == BatchPutEmptyKey(t, k) \/ BatchPut(t, k, v)
BatchDeleteCall(t, k) == BatchDeleteEmptyKey(t, k) \/ BatchDelete(t, k)

\* C12: get with an empty key returns KeyIsEmpty; put and delete on the
\* engine and put and delete on a batch, called with an empty key, return
\* KeyIsEmpty and change nothing: the segments, the index, reclaim_size, the
\* active file and the pending set stay as they are.
C12_EmptyKeyRejected ==
    [][/\ Running => Get("") = Failure("KeyIsEmpty")
       /\ \A t \in Writers, v \in Values :
             (PutCall(t, "", v) \/ DeleteCall(t, "")
                 \/ BatchPutCall(t, "", v) \/ BatchDeleteCall(t, ""))
             => /\ th'[t] = [th[t] EXCEPT !.res = "KeyIsEmpty"]
                /\ UNCHANGED <<disk, eng>>]_vars

\* A call with an empty key has returned KeyIsEmpty on an engine that holds
\* a record and beside a batch that holds a pending write.
C12_Witness ==
    /\ Running /\ Quiet
    /\ th["w1"].res = "KeyIsEmpty"
    /\ Entries(files) > 0 /\ list_keys(eng) # {}
    /\ PendingKeys("w1") # {}

\* C13: delete(k) on a key with no index entry returns Ok and is a no-op:
\* no tombstone is appended, and the segments, the write offset of the
\* active file, the index and reclaim_size stay as they are.
C13_DeleteMissNoOp ==
    [][\A t \in Writers, k \in Keys :
          (index_get(eng.index, k) = NoPos /\ DeleteCall(t, k))
          => /\ th'[t] = [th[t] EXCEPT !.res = ""]
             /\ UNCHANGED <<disk, eng>>]_vars

\* An engine that holds records and reclaimable bytes, with a key that was
\* deleted before and has no index entry: the delete of that key is the
\* call without effect.
C13_Witness ==
    /\ Running /\ Quiet /\ th["w1"].res = ""
    /\ eng.wofs > 0 /\ eng.reclaim > 0
    /\ \E k \in Keys : index_get(eng.index, k) = NoPos /\ expect[k].res = "deleted"

\* Number of batch terminators in the segments: one per committed batch.
Terminators == Cardinality({i \in 1..Len(Log) : Log[i].type = "TxnFinished"})

\* C14: starting from a fresh directory, after n successful commits of a
\* non-empty batch sequence_number is n + 1, in the running engine and again
\* after close and reopen.
C14_SequenceNumber ==
    (Running /\ Quiet) => eng.seq = Terminators + 1

\* An engine reopened after two commits: sequence_number is 3.
C14_Witness ==
    /\ Running /\ Quiet /\ Len(seqNoFile) >= 1
    /\ Terminators = 2 /\ eng.seq = 3

\* C15: the keys next() returned since the iterator was created, rewound or
\* sought are in strictly increasing byte-lexicographic order (strictly
\* decreasing with reverse), so each key of the snapshot at most once; every
\* one is a key of the snapshot and starts with the prefix; and no key of the
\* snapshot that starts with the prefix and lies at or after the cursor is
\* skipped: it has been returned once next() has passed it or has returned
\* None.
HasPrefix(k, p) == Len(p) <= Len(k) /\ SubSeq(k, 1, Len(p)) = p
IterBefore(it, a, b) == IF it.reverse THEN cmp(a, b) > 0 ELSE cmp(a, b) < 0
C15_IteratorOrder ==
    LET it == th["w1"].it
        out == it.out
        returned == {out[i] : i \in 1..Len(out)}
    IN /\ \A i, j \in 1..Len(out) : i < j => IterBefore(it, out[i], out[j])
       /\ returned \subseteq it.snap
       /\ \A k \in returned : HasPrefix(k, it.prefix)
       /\ \A k \in it.snap :
            ( /\ HasPrefix(k, it.prefix)
              /\ it.seeked.some => ~IterBefore(it, k, it.seeked.key)
              /\ \/ it.last = "none"
                 \/ out # <<>> /\ ~IterBefore(it, out[Len(out)], k) )
            => k \in returned
C15_Witness ==
    LET it == th["w1"].it
    IN /\ it.reverse
       /\ it.prefix # <<>>
       /\ it.seeked.some
       /\ Len(it.out) >= 1
       /\ it.last = "none"
       /\ \E k \in it.snap : ~HasPrefix(k, it.prefix) /\ ~IterBefore(it, k, it.seeked.key)
       /\ \E k \in it.snap : HasPrefix(k, it.prefix) /\ IterBefore(it, k, it.seeked.key)

\* C16: an operation that returns an error leaves the mapping as it was, in
\* the running engine and after close and reopen: the step on which put,
\* delete or commit returns an I/O error does not change what get returns,
\* and whenever the engine is open with no call in progress, every key has
\* the value of the last successful operation on it.
IOErrors == {"FailedToWriteToDataFile", "FailedToSyncToDataFile"}
C16_ErrorLeavesMapping ==
    [][/\ \A t \in Writers :
            (th[t].pc # "idle" \/ th'[t] # th[t]) /\ th'[t].pc = "idle" /\ th'[t].res \in IOErrors
            => Mapping' = Mapping
       /\ (Running' /\ Quiet') => Mapping' = Promised(expect')]_vars

\* A merge() call, whatever its outcome.
MergeCall == MergeEmpty \/ MergeBegin \/ MergeRatioUnreached \/ \E t \in Writers : MergeBusy(t)

\* C17: at most one merge runs at a time: a merge() call made while another
\* thread is inside merge returns MergeInProgress to its caller and changes
\* nothing else: the active file is not rotated, the merge directory and the
\* progress of the running merge are untouched.
C17_MergeLock ==
    [][(mg.pc # "idle" /\ MergeCall)
       => /\ \E t \in Writers : th' = [th EXCEPT ![t].res = "MergeInProgress"]
          /\ UNCHANGED <<disk, eng, mg>>]_vars
C17_Witness ==
    /\ Running
    /\ mg.pc = "scan"
    /\ th["w2"].res = "MergeInProgress"
    /\ mdir.exists
    /\ Len(mdir.hint.recs) >= 1

C19_MergeEmptyNoOp ==
    [][(Running /\ eng.wofs = 0 /\ eng.old = {} /\ MergeCall)
       => /\ mg' = [mg EXCEPT !.res = ""]
          /\ UNCHANGED <<disk, eng, lockHolders>>]_vars
C19_Witness ==
    /\ Running
    /\ eng.wofs = 0 /\ eng.old = {}
    /\ hist.merge = "noop"
    /\ mg.pc = "idle" /\ mg.res = ""
    /\ ~mdir.exists
    /\ DOMAIN files = {INITIAL_FILE_ID}

\* The start of a commit() call, whatever its outcome.
CommitCall(t) == CommitEmpty(t) \/ CommitExceed(t) \/ CommitBegin(t)

\* C20: a commit that does not write is free of effects: with no pending
\* entry commit returns Ok, with more pending entries than max_batch_num it
\* returns ExceedMaxBatchNum, and in both cases no record is appended, the
\* sequence number is not incremented, the index is unchanged and the batch
\* keeps its entries.
C20_CommitNoWrite ==
    [][\A t \in Writers :
         ( /\ CommitCall(t)
           /\ \/ PendingKeys(t) = {}
              \/ Cardinality(PendingKeys(t)) > th[t].max_batch_num )
         => /\ th'[t] = [th[t] EXCEPT !.res = IF PendingKeys(t) = {} THEN ""
                                               ELSE "ExceedMaxBatchNum"]
            /\ UNCHANGED <<disk, eng>>]_vars
C20_Witness ==
    /\ Running /\ Quiet
    /\ th["w1"].res = "ExceedMaxBatchNum"
    /\ Cardinality(PendingKeys("w1")) = 2
    /\ th["w1"].max_batch_num = 1
    /\ Terminators = 1
    /\ eng.seq = 2
    /\ list_keys(eng) # {}

\* C21: batch.delete(k) leaves the pending set alone only when k has no
\* index entry and is not pending; in every other case (k in the index, or k
\* only in the pending set) the pending set holds a Deleted record for k
\* after the call.
C21_BatchDeleteTombstone ==
    [][\A t \in Writers, k \in Keys :
         BatchDeleteCall(t, k)
         => IF index_get(eng.index, k) = NoPos /\ th[t].pending[k] = NoPend
            THEN th'[t].pending = th[t].pending
            ELSE th'[t].pending = [th[t].pending EXCEPT ![k] = [type |-> "Deleted", val |-> 0]]]_vars

\* C21 as amended: batch.delete(k) buffers a Deleted record for k when k has
\* an index entry; when k has none, it removes the pending record of k, if
\* there is one, and buffers nothing, so that commit appends no tombstone for
\* k.  The other pending records are untouched.
C21_BatchDeleteDrops ==
    [][\A t \in Writers, k \in Keys :
         BatchDeleteCall(t, k)
         => IF index_get(eng.index, k) = NoPos
            THEN th'[t].pending = [th[t].pending EXCEPT ![k] = NoPend]
            ELSE th'[t].pending = [th[t].pending EXCEPT ![k] = [type |-> "Deleted", val |-> 0]]]_vars
C21_Witness ==
    /\ Running /\ Quiet
    /\ \E k \in Keys : index_get(eng.index, k) # NoPos /\ th["w1"].pending[k].type = "Deleted"
    /\ \E k \in Keys : index_get(eng.index, k) = NoPos /\ th["w1"].pending[k] = NoPend

\* C22: Engine::open with startup_io_type = MemoryMapped returns, for every
\* index type, and leaves no file of the running engine with a memory-mapped
\* IO manager, so that no following put, delete or close reaches the
\* unimplemented write and sync of that manager.
C22_StandardIoAfterOpen ==
    /\ hist.openRes \notin {"deadlock", "panic"}
    /\ Running => eng.mmapped = {}
    /\ \A t \in Writers : th[t].res # "panic"
    /\ hist.openRes # "closed by panic"

\* One iteration of the merge loop read a whole record of a candidate file.
MergeScanStep ==
    /\ mg.pc = "scan" /\ mg'.pc \in {"scan", "sync"} /\ mg' # mg
    /\ read_log_record(files[mg.cands[mg.ci]], mg.ofs).res = "ok"

C32_MergeFinished ==
    [][/\ (mdir.exists /\ mdir'.exists /\ mdir'.fin.fid > 0 /\ mdir'.fin.fid # mdir.fin.fid) =>
             /\ mg.cands # <<>>
             /\ \A i \in 1..Len(mg.cands) : mg.cands[i] < mdir'.fin.fid
             /\ mdir'.fin.fid - 1 \in {mg.cands[i] : i \in 1..Len(mg.cands)}
             /\ mg.ci = Len(mg.cands)
             /\ read_log_record(files[mg.cands[mg.ci]], mg.ofs).res = "ReadDataFileEOF"
             /\ \A k \in Keys :
                   (index_get(eng.index, k) # NoPos
                       /\ index_get(eng.index, k).file_id < mdir'.fin.fid)
                   => \E j \in 1..Len(mdir.hint.recs) : mdir.hint.recs[j].key = k
       /\ (eng.state = "down" /\ eng'.state = "open" /\ mdir.exists /\ mdir.fin.fid > 0) =>
             /\ mdir' = NoDir
             /\ fin' = mdir.fin
             /\ \A i \in DOMAIN files : i >= mdir.fin.fid =>
                   i \in DOMAIN files' /\ files'[i] = files[i]
             /\ \A i \in DOMAIN files' : i < mdir.fin.fid =>
                   i \in DOMAIN mdir.files /\ files'[i] = mdir.files[i]
             /\ hint' = mdir.hint]_vars

\* The engine runs after the open that followed a finished merge: the merge
\* directory is gone, merge-finished is in the engine directory, and the
\* file the merge left active is still there.
C32_Witness ==
    /\ Running /\ hist.merge = "reopened"
    /\ mdir = NoDir /\ fin.exists /\ fin.fid > INITIAL_FILE_ID
    /\ fin.fid \in DOMAIN files
    /\ hint.exists /\ Len(hint.recs) >= 1

\* One caller of put, delete and merge that goes on writing after a merge,
\* into the files the merge left unmerged.
MergedRoom(n) == Entries(files) + n <= MaxMergedAppends /\ eng.active < MaxMergedFileId
NextHint ==
    \/ \E k \in Keys, v \in Values : Quiet /\ MergedRoom(1) /\ PutAppend("w1", k, v)
    \/ PutIndex("w1")
    \/ \E k \in Keys : Quiet /\ DeleteMiss("w1", k)
    \/ \E k \in Keys : Quiet /\ MergedRoom(1) /\ DeleteLookup("w1", k)
    \/ DeleteAppend("w1")
    \/ DeleteIndex("w1")
    \/ SeqMerge
    \/ Open
    \/ CloseRoom /\ Drop
SpecHint == Init /\ [][NextHint]_vars

\* The index a scan of every data file of the directory builds, from the
\* lowest id to the highest, without hint file and without merge-finished.
full_scan(fs) ==
    load_index_from_data_files(fs, SortedSeq(DOMAIN fs), NoFin, EmptyIndex).index

\* C33: an open that finds merge-finished builds, from the hint file and the
\* scan of the files from non_merge_file_id on, the index a scan of all data
\* files of the directory would build; also when keys of the merged files
\* were overwritten or deleted after the merge.
C33_HintEqualsFullScan ==
    [][(eng.state = "down" /\ eng'.state = "open" /\ fin'.exists)
          => eng'.index = full_scan(files')]_vars

\* The engine runs after a merge and a reopen: the hint file holds a key
\* whose index entry is no longer the one of the hint file, because the key
\* was put or deleted after the merge; another entry may still come from it.
C33_Witness ==
    /\ Running /\ Quiet /\ hist.openRes = "ok" /\ fin.exists /\ hint.exists
    /\ eng.wofs = FileLen(files[eng.active])
    /\ eng.index = full_scan(files)
    /\ \E j \in 1..Len(hint.recs) :
          index_get(eng.index, hint.recs[j].key) # hint.recs[j].pos
    /\ \E i \in DOMAIN files : i >= fin.fid /\ Len(files[i]) > 0

\* The records of the data files that hold no current value: every tombstone,
\* and every Normal record that is not the index entry of its key; and their
\* total encoded size.
DeadRecords(fs, e) ==
    {p \in UNION {{<<i, j>> : j \in 1..Len(fs[i])} : i \in DOMAIN fs} :
        LET r == fs[p[1]][p[2]] IN
        \/ r.type = "Deleted"
        \/ /\ r.type = "Normal"
           /\ index_get(e.index, r.key) # [file_id |-> p[1], ofs |-> r.ofs, size |-> r.size]}
RECURSIVE SizeOf(_, _)
SizeOf(fs, P) ==
    IF P = {} THEN 0
    ELSE LET p == CHOOSE q \in P : TRUE
         IN fs[p[1]][p[2]].size + SizeOf(fs, P \ {p})

\* C34: after any sequence of put, delete and batch commit reclaim_size is
\* the total size of the records superseded by a newer record of their key,
\* of the tombstones and of the records the tombstones removed; and it is
\* the value the startup scan of the data files computes.
C34_ReclaimSize ==
    (Running /\ Quiet /\ ~mdir.exists /\ ~fin.exists) =>
        /\ eng.reclaim = SizeOf(files, DeadRecords(files, eng))
        /\ eng.reclaim = load_index_from_data_files(files, SortedSeq(DOMAIN files),
                                                    NoFin, EmptyIndex).reclaim

\* ------------------------------------------------------- automatic fsync
\* The sync options an engine is opened with: (sync_writes, bytes_per_sync).
SyncOptions == {<<TRUE, 0>>, <<FALSE, 0>>, <<FALSE, 16>>, <<TRUE, 16>>}

\* An append that never syncs by itself.
need_sync_never(sw, bps, total) == FALSE

\* append_log_record: whether the active file is synced after the write;
\* total is the counter after the bytes of this record were added.
need_sync(sw, bps, total) == sw \/ (bps > 0 /\ total >= bps)

\* The sync accounting of append_log_record for a record of len bytes (rot:
\* the call closed the active file, which it syncs first).  bytes_write is
\* the counter of the code; unsynced, the bytes written and not synced since,
\* and last_sync, the syncs of the last append, are history.
auto_sync(e, len, rot) ==
    LET total == e.bytes_write + len
        ns == need_sync(e.sync_writes, e.bytes_per_sync, total)
    IN [e EXCEPT !.bytes_write = IF ns THEN 0 ELSE total,
                 !.unsynced = IF ns THEN 0 ELSE (IF rot THEN 0 ELSE @) + len,
                 !.last_sync = IF ns THEN (IF rot THEN "both" ELSE "auto")
                               ELSE IF rot THEN "rotate" ELSE "none"]

\* Engine::put, first half, with the sync accounting of the append.
PutAppendSync(t, k, v) ==
    /\ Running /\ th[t].pc = "idle"
    /\ ~key_is_empty(k)
    /\ can_write(eng)
    /\ LET a == EngAppend("Normal", k, v, NON_TRANSACTION_SEQUENCE) IN
       /\ files' = a.files
       /\ eng' = auto_sync(SetEngFile(a), a.pos.size, a.active # eng.active)
       /\ th' = [th EXCEPT ![t].pc = "put_index", ![t].key = k, ![t].val = v,
                           ![t].pos = a.pos]
    /\ UNCHANGED <<hint, fin, seqNoFile, mdir, lockHolders, mg, expect, hist>>

\* Engine::delete: the append of the tombstone, with its sync accounting.
DeleteAppendSync(t) ==
    /\ th[t].pc = "del_append"
    /\ can_write(eng)
    /\ LET a == EngAppend("Deleted", th[t].key, 0, NON_TRANSACTION_SEQUENCE) IN
       /\ files' = a.files
       /\ eng' = [auto_sync(SetEngFile(a), a.pos.size, a.active # eng.active)
                     EXCEPT !.reclaim = @ + a.pos.size]
       /\ th' = [th EXCEPT ![t].pc = "del_index", ![t].pos = a.pos]
    /\ UNCHANGED <<hint, fin, seqNoFile, mdir, lockHolders, mg, expect, hist>>

\* One caller of put and delete on an engine opened with any sync options.
SyncRoom(n) == Entries(files) + n <= MaxBatchAppends /\ eng.active < MaxBatchFileId
NextSync ==
    \/ \E k \in Keys, v \in Values : Quiet /\ SyncRoom(1) /\ PutAppendSync("w1", k, v)
    \/ PutIndex("w1")
    \/ \E k \in Keys : Quiet /\ DeleteMiss("w1", k)
    \/ \E k \in Keys : Quiet /\ SyncRoom(1) /\ DeleteLookup("w1", k)
    \/ DeleteAppendSync("w1")
    \/ DeleteIndex("w1")
    \/ \E o \in SyncOptions :
          OpenOptions(data_file_merge_ratio, "BTree", "StandardFIO", o[1], o[2])
    \/ CloseRoom /\ Drop
SpecSync == Init /\ [][NextSync]_vars

\* What holds after every append whatever the sync options: with sync_writes
\* nothing is unsynced and the counter is 0; with bytes_per_sync = B > 0 alone
\* the counter is below B; the counter is reset exactly by an automatic sync.
SyncCounter ==
    /\ eng.sync_writes => eng'.unsynced = 0 /\ eng'.bytes_write = 0
    /\ (~eng.sync_writes /\ eng.bytes_per_sync > 0) => eng'.bytes_write < eng.bytes_per_sync
    /\ eng'.bytes_write = 0 <=> eng'.last_sync \in {"auto", "both"}
    /\ eng'.bytes_write # 0 =>
          LET f == files'[eng'.active]
          IN eng'.bytes_write = eng.bytes_write + f[Len(f)].size

\* C35 as stated: after every append, SyncCounter; and with sync_writes off
\* and bytes_per_sync 0 the append performs no fsync at all.
C35_NeverSyncsWhenOff ==
    [][AppendStep =>
        /\ SyncCounter
        /\ (~eng.sync_writes /\ eng.bytes_per_sync = 0) => eng'.last_sync = "none"]_vars

\* C35, amended: after every append, SyncCounter; and with sync_writes off
\* and bytes_per_sync 0 the append performs no automatic fsync: the only
\* fsync it may perform is that of the full active file it closes.
C35_AutoSync ==
    [][AppendStep =>
        /\ SyncCounter
        /\ (~eng.sync_writes /\ eng.bytes_per_sync = 0) =>
              /\ eng'.last_sync \in {"none", "rotate"}
              /\ eng'.last_sync = "rotate" <=> eng'.active # eng.active]_vars

\* An engine with both sync options off has just closed its full active file
\* in an append: the file was synced, the new record is not, and the counter
\* holds every byte appended since open.
C35_Witness ==
    /\ Running /\ ~eng.sync_writes /\ eng.bytes_per_sync = 0
    /\ eng.last_sync = "rotate" /\ eng.unsynced = eng.wofs
    /\ eng.bytes_write > data_file_size

\* The first call of next() after the creation of the iterator, a seek or a
\* rewind; the keys of the snapshot at or after the key of the seek (all of
\* them after a rewind), and the first of a set of keys in iteration order.
FirstNext == th["w1"].it.last = "new" /\ th'["w1"].it.last # "new"
AtOrAfterSeek(it) == {k \in it.snap : it.seeked.some => ~IterBefore(it, k, it.seeked.key)}
ReturnsFirstOf(it, itn, C) ==
    IF C = {} THEN itn.last = "none" /\ itn.out = <<>>
    ELSE /\ itn.last = "some"
         /\ itn.out = <<CHOOSE k \in C : \A x \in C \ {k} : IterBefore(it, k, x)>>

\* C36 as stated: after seek(key) next() returns the first element of the
\* snapshot whose key is >= key (<= key when reverse), None when there is
\* none; after rewind() it returns the first element of the snapshot.
C36_SeekFirstInSnapshot ==
    [][FirstNext =>
        ReturnsFirstOf(th["w1"].it, th'["w1"].it, AtOrAfterSeek(th["w1"].it))]_vars

\* C36, amended: after seek(key) next() returns the first element of the
\* snapshot that starts with the prefix of the iterator and whose key is
\* >= key (<= key when reverse), None when there is none; after rewind() it
\* returns the first element that starts with the prefix.
C36_SeekFirstWithPrefix ==
    [][FirstNext =>
        ReturnsFirstOf(th["w1"].it, th'["w1"].it,
                       {k \in AtOrAfterSeek(th["w1"].it) : HasPrefix(k, th["w1"].it.prefix)})]_vars

\* A reverse iterator with a prefix was sought and next() returned a key: the
\* snapshot holds a key before the key of the seek, and a key at or after it
\* without the prefix that comes before the key returned.
C36_Witness ==
    LET it == th["w1"].it
    IN /\ it.reverse /\ it.prefix # <<>> /\ it.seeked.some
       /\ Len(it.out) = 1 /\ it.last = "some"
       /\ \E k \in it.snap : IterBefore(it, k, it.seeked.key)
       /\ \E k \in AtOrAfterSeek(it) : ~HasPrefix(k, it.prefix) /\ IterBefore(it, k, it.out[1])

\* ------------------------------------- the locks of active_file, old_files
\* RwLock::read and RwLock::write: whether the call returns at once, and the
\* lock after it and after the guard is dropped.
can_read(l) == l.w = ""
can_write_lock(l) == l.w = "" /\ l.r = {}
read_locked(l, t) == [l EXCEPT !.r = @ \cup {t}]
write_locked(l, t) == [l EXCEPT !.w = t]
unlocked(l, t) == [w |-> IF l.w = t THEN "" ELSE l.w, r |-> l.r \ {t}]

\* Engine::get of a key of the index, get_value_by_position: the read guard
\* of active_file is taken.
GetLockActive(t, k) ==
    /\ Running /\ th[t].pc = "idle"
    /\ index_get(eng.index, k) # NoPos
    /\ can_read(eng.active_file_lock)
    /\ eng' = [eng EXCEPT !.active_file_lock = read_locked(@, t)]
    /\ th' = [th EXCEPT ![t].pc = "get_old_files", ![t].key = k]
    /\ UNCHANGED <<disk, lockHolders, mg, expect, hist>>

\* get_value_by_position: the read guard of old_files is taken, the record
\* is read, both guards are dropped and get returns.
GetLockOld(t) ==
    /\ th[t].pc = "get_old_files"
    /\ can_read(eng.old_files_lock)
    /\ eng' = [eng EXCEPT !.active_file_lock = unlocked(@, t)]
    /\ th' = [th EXCEPT ![t] = [Returned(@) EXCEPT !.res = Get(th[t].key).res]]
    /\ UNCHANGED <<disk, lockHolders, mg, expect, hist>>

\* Engine::put, append_log_record: the write guard of active_file is taken.
PutLockActive(t, k, v) ==
    /\ Running /\ th[t].pc = "idle"
    /\ ~key_is_empty(k)
    /\ can_write_lock(eng.active_file_lock)
    /\ eng' = [eng EXCEPT !.active_file_lock = write_locked(@, t)]
    /\ th' = [th EXCEPT ![t].pc = "put_append", ![t].key = k, ![t].val = v]
    /\ UNCHANGED <<disk, lockHolders, mg, expect, hist>>

\* append_log_record under the write guard of active_file: when the file is
\* full the write guard of old_files is taken for the rotation; the record
\* is written and the guards are dropped.
PutLockedAppend(t) ==
    /\ th[t].pc = "put_append"
    /\ MustRotate(eng.wofs, RecordSize(th[t].key, th[t].val, NON_TRANSACTION_SEQUENCE))
          => can_write_lock(eng.old_files_lock)
    /\ LET a == EngAppend("Normal", th[t].key, th[t].val, NON_TRANSACTION_SEQUENCE) IN
       /\ files' = a.files
       /\ eng' = [SetEngFile(a) EXCEPT !.active_file_lock = unlocked(@, t)]
       /\ th' = [th EXCEPT ![t].pc = "put_index", ![t].pos = a.pos]
    /\ UNCHANGED <<hint, fin, seqNoFile, mdir, lockHolders, mg, expect, hist>>

\* Engine::merge, get_merge_files: the write guard of old_files is taken.
MergeLockOld ==
    /\ mg.pc = "rotate"
    /\ can_write_lock(eng.old_files_lock)
    /\ eng' = [eng EXCEPT !.old_files_lock = write_locked(@, "merge")]
    /\ mg' = [mg EXCEPT !.pc = "rotate_active"]
    /\ UNCHANGED <<disk, lockHolders, th, expect, hist>>

\* get_merge_files: the write guard of active_file is taken, the active file
\* is replaced, the guards are dropped; the sub-engine is opened.
MergeLockActive ==
    /\ mg.pc = "rotate_active"
    /\ can_write_lock(eng.active_file_lock)
    /\ LET g == get_merge_files(files, eng) IN
       /\ files' = g.files
       /\ eng' = [g.eng EXCEPT !.old_files_lock = unlocked(@, "merge")]
       /\ mg' = [mg EXCEPT !.pc = "scan", !.cands = g.cands, !.ci = 1, !.ofs = 0,
                           !.mactive = INITIAL_FILE_ID, !.mwofs = 0]
    /\ mdir' = [mdir EXCEPT !.files = (INITIAL_FILE_ID :> <<>>),
                            !.hint = [exists |-> TRUE, recs |-> <<>>]]
    /\ UNCHANGED <<hint, fin, seqNoFile, lockHolders, th, expect, hist>>

\* A thread in put and get and a thread in merge, each lock taken in a step
\* of its own.
StepOf(t) == GetLockOld(t) \/ PutLockedAppend(t) \/ PutIndex(t)
StepOfMerge ==
    MergeLockOld \/ MergeLockActive \/ MergeScan \/ MergeFinCreate \/ MergeFinWrite
NextLocks ==
    \/ \E k \in Keys : GetLockActive("w1", k)
    \/ \E k \in Keys, v \in Values : ConcRoom(1) /\ PutLockActive("w1", k, v)
    \/ StepOf("w1")
    \/ eng.active < MaxFileId /\ MergeBegin
    \/ StepOfMerge
    \/ Open
    \/ CloseRoom /\ Drop
SpecLocks == Init /\ [][NextLocks]_vars

\* C37: under every interleaving of merge with put and get on another
\* thread no call is stuck: while calls are in progress, one of them can
\* take its next step.
C37_NoDeadlock ==
    (th["w1"].pc # "idle" \/ mg.pc # "idle") =>
        \/ th["w1"].pc # "idle" /\ ENABLED StepOf("w1")
        \/ mg.pc # "idle" /\ ENABLED StepOfMerge

\* ----------------------------------------- writers on one key, concurrently
\* The engine that Engine::open builds from the segments as they are now.
reopened(fs, e) == [e EXCEPT !.index = full_scan(fs)]

\* C38: when several threads have run put, delete or commit concurrently and
\* all calls have returned, get(k) in the running engine equals get(k) after
\* close and reopen, for every key: the index designates the last record of
\* the key in the log.
C38_IndexIsLastRecord ==
    (Running /\ Quiet /\ ~hint.exists) =>
        \A k \in Keys : Get(k) = GetIn(files, reopened(files, eng), k)

\* ------------------------------------------- rotation beside put and merge
\* One thread in put, with values short and long, beside a thread in merge:
\* the active file is replaced by append_log_record and by get_merge_files.
RotateRoom(n) == Entries(files) + n <= MaxConcAppends /\ eng.active < MaxRotateFileId
NextRotate ==
    \/ \E k \in Keys, v \in Values \cup BigValues : RotateRoom(1) /\ PutAppend("w1", k, v)
    \/ PutIndex("w1")
    \/ eng.active < MaxRotateFileId /\ MergeBegin
    \/ MergeRotate
    \/ MergeScan
    \/ MergeFinCreate
    \/ MergeFinWrite
    \/ Open
    \/ CloseRoom /\ Drop
SpecRotate == Init /\ [][NextRotate]_vars

\* C39: while the engine runs no segment leaves the map of closed files, a
\* segment that stops being the active file is in the map in the same step,
\* and get never returns DataFileNotFound for a key of the index, whatever
\* the interleaving of put with rotation by append or by merge.
C39_NoDataFileNotFound ==
    [][(Running /\ eng'.state = "open") =>
          /\ eng.old \subseteq eng'.old
          /\ eng'.active # eng.active => eng.active \in eng'.old
          /\ \A k \in Keys : GetIn(files', eng', k).res # "DataFileNotFound"
          /\ th'["w1"].pc = "put_index" =>
                th'["w1"].pos.file_id \in eng'.old \cup {eng'.active}]_vars

\* While a merge runs on the files it closed, an append has closed the active
\* file that the merge created, and a key of the index is read from a closed
\* file.
C39_Witness ==
    /\ Running /\ mg.pc = "scan"
    /\ eng.active = mg.cands[Len(mg.cands)] + 2
    /\ eng.old = 1..(eng.active - 1)
    /\ \E k \in Keys : /\ index_get(eng.index, k) # NoPos
                       /\ index_get(eng.index, k).file_id \in eng.old
                       /\ Get(k).res = "ok"

\* --------------------------------------------- a handle committed twice
\* One batch handle, held by w1 and committed any number of times, and a
\* caller of put, w2; every call runs to its end before the next one starts.
RecommitRoom(n) == Entries(files) + n <= MaxRecommitAppends /\ eng.active < MaxBatchFileId
NextRecommit ==
    \/ \E k \in Keys, v \in Values : Quiet /\ BatchPut("w1", k, v)
    \/ \E k \in Keys : Quiet /\ BatchDelete("w1", k)
    \/ Quiet /\ RecommitRoom(Cardinality(PendingKeys("w1")) + 1) /\ CommitBegin("w1")
    \/ CommitAppend("w1")
    \/ CommitFin("w1")
    \/ CommitSync("w1")
    \/ CommitIndex("w1")
    \/ \E k \in Keys, v \in Values : Quiet /\ RecommitRoom(1) /\ PutAppend("w2", k, v)
    \/ PutIndex("w2")
    \/ Open
SpecRecommit == Init /\ [][NextRecommit]_vars

\* A step of commit on the handle of t, and the step in which it returns Ok.
InCommit(t) == th[t].pc \in {"c_append", "c_sync", "c_index"} \/ th'[t].pc = "c_append"
CommitReturns(t) == th[t].pc = "c_index" /\ th'[t].pc = "idle"

\* C40: commit removes nothing from the pending set of the handle; every
\* commit draws a sequence number no record on disk carries, and when it
\* returns each pending entry has a record under that number followed by the
\* terminator, and the index is at those records (or has no entry, for a
\* pending delete), whatever was stored for the keys before.
C40_CommitKeepsPending ==
    [][\A t \in Writers :
        /\ InCommit(t) => th'[t].pending = th[t].pending
        /\ (th[t].pc = "idle" /\ th'[t].pc = "c_append") =>
              /\ th'[t].seq \notin SeqsOnDisk(files)
              /\ th'[t].todo = PendingKeys(t)
        /\ CommitReturns(t) =>
              /\ HasTerminator(files', th[t].seq)
              /\ \A k \in PendingKeys(t) :
                    LET p == th[t].poss[k]
                        r == read_log_record(files'[p.file_id], p.ofs)
                    IN /\ r.res = "ok"
                       /\ r.rec.key = k /\ r.rec.seq = th[t].seq
                       /\ r.rec.type = th[t].pending[k].type
                       /\ r.rec.type = "Normal" => r.rec.val = th[t].pending[k].val
                       /\ index_get(eng'.index, k) =
                             IF r.rec.type = "Normal" THEN p ELSE NoPos]_vars

\* The handle has been committed twice with a put of the other caller on
\* the same key in between: the log holds the key under two sequence
\* numbers around the put, and get returns the value of the handle.
C40_Witness ==
    /\ Running /\ Quiet
    /\ \E k \in Keys, i, j, l \in 1..Len(Log) :
          /\ i < j /\ j < l
          /\ Log[i].key = k /\ Log[j].key = k /\ Log[l].key = k
          /\ Log[i].seq > NON_TRANSACTION_SEQUENCE /\ Log[l].seq > Log[i].seq
          /\ Log[j].seq = NON_TRANSACTION_SEQUENCE
          /\ th["w1"].pending[k].type = "Normal"
          /\ Log[j].val # th["w1"].pending[k].val
          /\ Log[i].val = th["w1"].pending[k].val /\ Log[l].val = th["w1"].pending[k].val
          /\ Get(k) = Value(th["w1"].pending[k].val)

====
